---- MODULE Spec2Model ----
(***************************************************************************)
(* A model of the AI-town core: the game engine's input queue and          *)
(* generation-fenced step loop with the world lifecycle mutations that     *)
(* drive it (convex/init, convex/game/main), the GameTable write-back      *)
(* cache (convex/engine/gameTable), the A* pathfinder                      *)
(* (convex/game/movement) and the client's playback clock (src/hooks).     *)
(*                                                                         *)
(* Each subsystem has its own specification over its own variables; the    *)
(* variables of the other subsystems are held constant by it.              *)
(*   Spec       the engine of the default world                            *)
(*   SpecTable  one GameTable inside one transaction                       *)
(*   SpecRoute  one findRoute call                                         *)
(*   SpecTime   one HistoricalTimeManager of a client (src/hooks)          *)
(*   SpecHeap   one MinHeap (convex/util/minheap)                          *)
(*   SpecRetry  one call of the OpenAI client (convex/util/openai)         *)
(*   SpecRead   one streamed completion being read (convex/util/openai)    *)
(*   SpecWorld  the world lifecycle from an empty database (convex/init)   *)
(*   SpecKey    init and one OpenAI call under one environment             *)
(*   SpecSend   one sender of useSendInput and its input (src/hooks)       *)
(*   SpecHistory one HistoryManager of a client (src/hooks)                *)
(*   SpecAgents init, the engine and the agent creation jobs (convex/init) *)
(*   SpecEmbed  one call of fetchEmbeddingBatch (convex/util/openai)       *)
(***************************************************************************)
EXTENDS Integers, Sequences, FiniteSets, Bags, TLC

VARIABLES
  \* ---- store tables used by the engine (Spec)
  worlds,      \* table `worlds`:  seq of [engineId, isDefault, status]
  engines,     \* table `engines`: seq of engine documents
  inputs,      \* table `inputs`:  seq of input documents, in insertion order
  players,     \* table `players`: seq of [worldId, name] (the game state)
  scheduled,   \* the scheduler: a bag of pending runStep jobs
  now,         \* the wall clock, Date.now(), in ms
  applied,     \* history: per engine, the input numbers in the order applied
  lastStep,    \* history: how the most recent runStep ended
  \* ---- one GameTable (SpecTable)
  store,       \* the table's rows in the database: id -> doc
  data,        \* GameTable.data: id -> cached doc
  modified,    \* GameTable.modified, in insertion order
  deleted,     \* GameTable.deleted, in insertion order
  handles,     \* ids for which lookup() has handed out a proxy
  nextId,      \* the id the store gives the next inserted row
  lastOp,      \* history: the last GameTable call, its result and store calls
  sinceSave,   \* history: "clean" from a completed save() to the next mutation
  \* ---- one findRoute call (SpecRoute)
  route,       \* the call's inputs, locals and result
  \* ---- one HistoricalTimeManager (SpecTime)
  intervals,           \* HistoricalTimeManager.intervals
  prevClientTs,        \* HistoricalTimeManager.prevClientTs, -1 for undefined
  prevServerTs,        \* HistoricalTimeManager.prevServerTs, -1 for undefined
  totalDuration,       \* HistoricalTimeManager.totalDuration
  lastCall,    \* history: the last call on the manager and how it ended
  \* ---- one MinHeap (SpecHeap)
  minheap,     \* the closure's tree and endIndex
  heapCall,    \* history: the last call on the heap, its result, the contents
  \* ---- one call of the OpenAI client (SpecRetry)
  retry,       \* the call's environment, loop counter, requests, waits, end
  \* ---- one ChatCompletionContent being read (SpecRead)
  content,     \* the streamed output, the stop words, read()'s locals, yields
  embedded,    \* the last call of fetchEmbeddingBatch: texts, response, result
  \* ---- the deployment (SpecWorld, SpecKey)
  env,         \* process.env: is OPENAI_API_KEY set
  maps,        \* table `maps`: the number of rows
  creations,   \* the scheduler: pending completeAgentCreation jobs
  lastInit,    \* history: how the most recent init ended
  agents,      \* table `agents`: seq of [worldId, playerId]
  \* ---- one sender of useSendInput (SpecSend)
  sender,      \* the input document, the watched query, the call's position
  \* ---- one HistoryManager (SpecHistory)
  histories,   \* HistoryManager.histories of one field
  lastQuery    \* history: the last call, its result, the histories before,
               \* all histories received, the latest time queried before

engineVars == <<worlds, engines, inputs, players, scheduled, now, applied,
               lastStep>>
tableVars  == <<store, data, modified, deleted, handles, nextId, lastOp,
               sinceSave>>
routeVars  == <<route>>
timeVars   == <<intervals, prevClientTs, prevServerTs, totalDuration,
               lastCall>>
heapVars   == <<minheap, heapCall>>
\* the variables of the utilities
worldVars  == <<env, maps, creations, lastInit, agents>>
hookVars   == <<sender, histories, lastQuery>>
utilVars   == <<heapVars, retry, content, embedded, worldVars, hookVars>>
vars       == <<engineVars, tableVars, routeVars, timeVars, utilVars>>

Min(a, b) == IF a <= b THEN a ELSE b
Max(a, b) == IF a >= b THEN a ELSE b

(***************************************************************************)
(* Bounds of the model.                                                    *)
(***************************************************************************)
MaxInputs     == 2   \* inputs ever inserted
MaxGeneration == 2   \* kicks and resumes per engine
MaxNow        == 1   \* clock advances
MaxIds        == 1   \* rows a GameTable ever holds
MapSize       == 2   \* width of the map, in tiles
MaxServerTs   == 4   \* largest engine time, in frames
MaxClientTs   == 2   \* largest client clock reading, in frames
MaxLength     == 3   \* elements a MinHeap holds
MaxOutput     == 3   \* characters of a streamed completion
MaxSenders    == 2   \* concurrent calls of a sender
MaxWorlds     == 2   \* worlds ever created
MaxSampleTime == 3   \* largest time of a history sample
MaxHistories  == 2   \* history buffers a HistoryManager receives

(***************************************************************************)
(* Program constants.                                                      *)
(***************************************************************************)
STEP_INTERVAL == 1000
INPUT_DELAY   == 1000
MAX_STEP      == 10 * 60 * 1000
COLLISION_THRESHOLD == 3   \* 0.75 tile, in quarter tiles
MAX_SERVER_BUFFER_AGE      == 1250
SOFT_MAX_SERVER_BUFFER_AGE == 1000
SOFT_MIN_SERVER_BUFFER_AGE == 100
RETRY_BACKOFF == <<1000, 10000, 20000>>
RETRY_JITTER  == 100

\* The clock advances in whole step intervals.
ClockStep == STEP_INTERVAL
PlayerNames == {"alice", "bob"}

NoReturn == [kind |-> "none"]
Null     == [kind |-> "null"]

\* A new HistoricalTimeManager; also the idle values of its variables for
\* the other specifications.
TimeIdle ==
  /\ intervals = << >>
  /\ prevClientTs = -1
  /\ prevServerTs = -1
  /\ totalDuration = 0
  /\ lastCall = [op |-> "new"]

\* A new MinHeap: tree holds only the unused slot 0, which is not modelled.
HeapIdle ==
  /\ minheap = [tree |-> << >>, endIndex |-> 1]
  /\ heapCall = [op |-> "new"]

\* No call of the OpenAI client is running.
RetryIdle == retry = [pc |-> "idle"]

\* No streamed completion is being read.
ReadIdle == content = [pc |-> "idle"]

\* No embedding was fetched.
EmbedIdle == embedded = [pc |-> "idle"]

\* The utilities at rest (for the other specifications).
\* The deployment's variables outside the lifecycle specifications: the
\* environment and tables as a committed init leaves them.
WorldIdle ==
  /\ env = [OPENAI_API_KEY |-> TRUE]
  /\ maps = 1
  /\ creations = << >>
  /\ agents = << >>
  /\ lastInit = [op |-> "init", threw |-> FALSE, message |-> ""]

SendIdle == sender = [pc |-> "idle"]

HistoryIdle ==
  /\ histories = << >>
  /\ lastQuery = [op |-> "new", time |-> -1, result |-> -1, before |-> << >>,
                  all |-> << >>, since |-> 0]

HookIdle == SendIdle /\ HistoryIdle

UtilIdle ==
  HeapIdle /\ RetryIdle /\ ReadIdle /\ EmbedIdle /\ WorldIdle /\ HookIdle

\* ================================================================ ENGINE

\* Idle values of the engine's variables (for the other specifications).
EngineIdle ==
  /\ worlds = << >> /\ engines = << >> /\ inputs = << >> /\ players = << >>
  /\ scheduled = EmptyBag /\ now = 0 /\ applied = << >> /\ lastStep = "none"

Job(engineId, generationNumber, runAt) ==
  [engineId |-> engineId, generationNumber |-> generationNumber, runAt |-> runAt]

\* ctx.scheduler.runAt / runAfter of the step function.
Schedule(sched, job) == sched (+) SetToBag({job})

\* The default world, or 0 when there is none ('No default world found').
getDefaultWorld ==
  IF \E w \in DOMAIN worlds : worlds[w].isDefault
  THEN CHOOSE w \in DOMAIN worlds :
         /\ worlds[w].isDefault
         /\ \A v \in DOMAIN worlds : worlds[v].isDefault => w <= v
  ELSE 0

\* The world of an engine, or 0 ('World for engine not found').
getWorldId(engineId) ==
  IF \E w \in DOMAIN worlds : worlds[w].engineId = engineId
  THEN CHOOSE w \in DOMAIN worlds :
         /\ worlds[w].engineId = engineId
         /\ \A v \in DOMAIN worlds : worlds[v].engineId = engineId => w <= v
  ELSE 0

\* The inputs of one engine, as indexes into `inputs`.
InputsOf(ins, engineId) == {i \in DOMAIN ins : ins[i].engineId = engineId}

\* The engine document createEngine inserts: running, with its first step
\* scheduled.
NewEngine ==
  [generationNumber |-> 0,
   state |-> [kind |-> "running", scheduledSelfTs |-> now],
   currentTime |-> -1, lastStepTs |-> -1, processedInputNumber |-> -1]

\* running --stop--> stopped (clears scheduledSelfTs).  The scheduled job is
\* not touched: the engine document holds a time, not a job.
stopEngine(engs, engineId) ==
  [engs EXCEPT ![engineId].state = [kind |-> "stopped"]]

\* kick / start: generation + 1, running, the step re-scheduled immediately.
kickEngine(engs, engineId) ==
  [engs EXCEPT ![engineId].generationNumber = @ + 1,
               ![engineId].state = [kind |-> "running", scheduledSelfTs |-> now]]

startEngine(engs, engineId) ==
  [engs EXCEPT ![engineId].generationNumber = @ + 1,
               ![engineId].state = [kind |-> "running", scheduledSelfTs |-> now]]

\* number = max(existing) + 1 for this engine, from 0.
NextInputNumber(ins, engineId) ==
  IF InputsOf(ins, engineId) = {} THEN 0
  ELSE 1 + (CHOOSE n \in {ins[i].number : i \in InputsOf(ins, engineId)} :
              \A i \in InputsOf(ins, engineId) : ins[i].number <= n)

\* The engine kicks on insert when it is running and its next step is more
\* than INPUT_DELAY away.
InsertKicks(engineId) ==
  /\ engines[engineId].state.kind = "running"
  /\ engines[engineId].state.scheduledSelfTs - now > INPUT_DELAY
  /\ engines[engineId].generationNumber < MaxGeneration

\* engine insertInput(engineId, name, args).
gameInsertInput(engineId, name, args) ==
  /\ inputs' = Append(inputs,
       [engineId |-> engineId, number |-> NextInputNumber(inputs, engineId),
        name |-> name, args |-> args, receivedTs |-> now,
        returnValue |-> NoReturn])
  /\ IF InsertKicks(engineId)
     THEN /\ engines' = kickEngine(engines, engineId)
          /\ scheduled' = Schedule(scheduled,
               Job(engineId, engines[engineId].generationNumber + 1, now))
     ELSE UNCHANGED <<engines, scheduled>>

\* game/main insertInput(ctx, worldId, name, args): the world's engine gets
\* the input; an unknown world throws.
insertInput(worldId, name, args) ==
  /\ worldId \in DOMAIN worlds
  /\ gameInsertInput(worlds[worldId].engineId, name, args)

\* mutation sendInput.
sendInput(worldId, name, args) ==
  /\ Len(inputs) < MaxInputs
  /\ insertInput(worldId, name, args)
  /\ UNCHANGED <<worlds, players, now, applied, lastStep, tableVars, routeVars, timeVars, utilVars>>

\* inputStatus that reports only successful results.
inputStatus_OkOnly(inputId) ==
  IF inputs[inputId].returnValue.kind = "ok" THEN inputs[inputId].returnValue
  ELSE Null

\* query inputStatus(inputId): input.returnValue ?? null.
inputStatus(inputId) ==
  IF inputs[inputId].returnValue = NoReturn THEN Null
  ELSE inputs[inputId].returnValue

\* The input handlers are total: ok(value) or error(message).  `join` adds a
\* player and returns its id; a second join under the same name is refused.
handleInput(worldId, input, ps) ==
  IF input.name = "join"
  THEN IF \E p \in DOMAIN ps : ps[p].worldId = worldId /\ ps[p].name = input.args
       THEN [players |-> ps,
             returnValue |-> [kind |-> "error", message |-> "DuplicateJoin"]]
       ELSE [players |-> Append(ps, [worldId |-> worldId, name |-> input.args]),
             returnValue |-> [kind |-> "ok", value |-> Len(ps) + 1]]
  ELSE [players |-> ps,
        returnValue |-> [kind |-> "error", message |-> "InvalidInput"]]

\* Step 3 of the tick procedure: apply the inputs numbered
\* processedInputNumber + 1, ... until one was received after the window.
RECURSIVE drain(_, _, _, _)
drain(engineId, worldId, limit, st) ==
  LET next == {i \in InputsOf(st.inputs, engineId) :
                 st.inputs[i].number = st.processed + 1}
  IN IF next = {} THEN st
     ELSE LET i == CHOOSE j \in next : \A k \in next : j <= k
              r == handleInput(worldId, st.inputs[i], st.players)
          IN IF st.inputs[i].receivedTs > limit THEN st
             ELSE drain(engineId, worldId, limit,
                    [inputs    |-> [st.inputs EXCEPT ![i].returnValue = r.returnValue],
                     players   |-> r.players,
                     processed |-> st.inputs[i].number,
                     applied   |-> Append(st.applied, st.inputs[i].number)])

\* The fence of Game.runStep: the step runs only for the engine's current
\* generation and only while the engine is running.
Fenced(engineId, generationNumber) ==
  \/ generationNumber # engines[engineId].generationNumber
  \/ engines[engineId].state.kind # "running"

\* Game.runStep(ctx, stepReference, generationNumber), after its job was
\* taken off the scheduler (`sched`).
Game_runStep(engineId, worldId, generationNumber, sched) ==
  IF Fenced(engineId, generationNumber)
  THEN /\ scheduled' = sched
       /\ lastStep' = IF generationNumber # engines[engineId].generationNumber
                      THEN "fencedGeneration" ELSE "fencedStopped"
       /\ UNCHANGED <<engines, inputs, players, applied>>
  ELSE LET e          == engines[engineId]
           lastStepTs == IF e.lastStepTs = -1 THEN now ELSE e.lastStepTs
           stepWindow == Min(MAX_STEP, now - lastStepTs)
           limit      == lastStepTs + stepWindow
           st == drain(engineId, worldId, limit,
                   [inputs |-> inputs, players |-> players,
                    processed |-> e.processedInputNumber,
                    applied |-> applied[engineId]])
       IN /\ lastStep' = "ran"
          /\ inputs' = st.inputs
          /\ players' = st.players
          /\ applied' = [applied EXCEPT ![engineId] = st.applied]
          /\ engines' = [engines EXCEPT
               ![engineId].currentTime = limit,
               ![engineId].lastStepTs = limit,
               ![engineId].processedInputNumber = st.processed,
               ![engineId].state =
                  [kind |-> "running", scheduledSelfTs |-> limit + STEP_INTERVAL]]
          /\ scheduled' = Schedule(sched,
               Job(engineId, generationNumber, limit + STEP_INTERVAL))

\* A runStep that hands on the engine's current generation instead of the
\* one it was scheduled with.
runStepGeneration_Current(args) == engines[args.engineId].generationNumber

\* The generation internalMutation runStep hands to Game.runStep.
runStepGeneration(args) == args.generationNumber

\* internalMutation runStep({engineId, generationNumber}), run by the
\* scheduler at or after the job's time.  Without a world for the engine it
\* throws and the job is gone.
runStep(args) ==
  /\ BagIn(args, scheduled)
  /\ args.runAt <= now
  /\ LET sched == scheduled (-) SetToBag({args})
         worldId == getWorldId(args.engineId)
     IN IF worldId = 0
        THEN /\ scheduled' = sched
             /\ lastStep' = "noWorld"
             /\ UNCHANGED <<engines, inputs, players, applied>>
        ELSE Game_runStep(args.engineId, worldId, runStepGeneration(args), sched)
  /\ UNCHANGED <<worlds, now, tableVars, routeVars, timeVars, utilVars>>

\* internalMutation kick: kickEngine on the default world's engine, then
\* kickAgents (agent scheduling, no state of this model).  kickEngine throws
\* on an engine that is not running, which aborts the mutation.
kick ==
  LET w == getDefaultWorld IN
  /\ w # 0
  /\ LET e == worlds[w].engineId IN
     /\ engines[e].state.kind = "running"
     /\ engines[e].generationNumber < MaxGeneration
     /\ engines' = kickEngine(engines, e)
     /\ scheduled' = Schedule(scheduled,
          Job(e, engines[e].generationNumber + 1, now))
  /\ UNCHANGED <<worlds, inputs, players, now, applied, lastStep, tableVars,
                 routeVars, timeVars, utilVars>>

\* A stop that marks the world stopped and leaves the engine running.
stop_NoStopEngine ==
  LET w == getDefaultWorld IN
  /\ w # 0
  /\ worlds[w].status \notin {"inactive", "stoppedByDeveloper"}
  /\ worlds' = [worlds EXCEPT ![w].status = "stoppedByDeveloper"]
  /\ UNCHANGED <<engines, inputs, players, scheduled, now, applied, lastStep,
                 tableVars, routeVars, timeVars, utilVars>>

\* internalMutation stop.  On an inactive or stopped world it returns (or
\* throws) without a write; otherwise world.status := stoppedByDeveloper,
\* stopEngine (which throws on an engine that is not running), stopAgents.
stop ==
  LET w == getDefaultWorld IN
  /\ w # 0
  /\ worlds[w].status \notin {"inactive", "stoppedByDeveloper"}
  /\ engines[worlds[w].engineId].state.kind = "running"
  /\ worlds' = [worlds EXCEPT ![w].status = "stoppedByDeveloper"]
  /\ engines' = stopEngine(engines, worlds[w].engineId)
  /\ UNCHANGED <<inputs, players, scheduled, now, applied, lastStep, tableVars,
                 routeVars, timeVars, utilVars>>

\* A resume that marks the world running and leaves the engine stopped.
resume_NoStartEngine ==
  LET w == getDefaultWorld IN
  /\ w # 0
  /\ worlds[w].status # "running"
  /\ worlds' = [worlds EXCEPT ![w].status = "running"]
  /\ UNCHANGED <<engines, inputs, players, scheduled, now, applied, lastStep,
                 tableVars, routeVars, timeVars, utilVars>>

\* internalMutation resume.  On a running world it returns (or throws)
\* without a write; otherwise world.status := running, startEngine (which
\* throws on an engine that is not stopped), kickAgents.
resume ==
  LET w == getDefaultWorld IN
  /\ w # 0
  /\ worlds[w].status # "running"
  /\ LET e == worlds[w].engineId IN
     /\ engines[e].state.kind = "stopped"
     /\ engines[e].generationNumber < MaxGeneration
     /\ worlds' = [worlds EXCEPT ![w].status = "running"]
     /\ engines' = startEngine(engines, e)
     /\ scheduled' = Schedule(scheduled,
          Job(e, engines[e].generationNumber + 1, now))
  /\ UNCHANGED <<inputs, players, now, applied, lastStep, tableVars, routeVars, timeVars, utilVars>>

\* Time passes.
Advance ==
  /\ now < MaxNow * ClockStep
  /\ now' = now + ClockStep
  /\ UNCHANGED <<worlds, engines, inputs, players, scheduled, applied,
                 lastStep, tableVars, routeVars, timeVars, utilVars>>

\* ================================================================ TABLE

\* The record of a call: whether it was save() or another call, how it
\* ended ("ok", "null" or the error thrown) and the store calls it made.
Returned(result) == [op |-> "call", result |-> result, ops |-> << >>]

TableIdle ==
  /\ store = << >> /\ data = << >> /\ modified = << >> /\ deleted = << >>
  /\ handles = {} /\ nextId = 1 /\ lastOp = Returned("ok")
  /\ sinceSave = "new"

\* Documents: an `active` flag and a field x (0, or -1: the property is
\* absent).
\* A nested object is reached through the get trap, which wraps it in a proxy
\* with the same handlers, so a write to it marks and mutates like a write
\* to x.
Vals == {0}
Doc(active, x) == [active |-> active, x |-> x]
NewDocs == {Doc(a, 0) : a \in BOOLEAN}

\* The writes a caller can make through a handle (for `active`, 1 is true
\* and 0 is false).
Writes ==
  {[kind |-> "set", prop |-> "active", value |-> b] : b \in {0, 1}}
    \cup {[kind |-> "defineProperty", prop |-> "x", value |-> v] : v \in Vals}
    \cup {[kind |-> "deleteProperty", prop |-> "x", value |-> -1]}

\* Reflect.set / Reflect.defineProperty / Reflect.deleteProperty on the row
\* object.
Reflect(doc, w) ==
  CASE w.prop = "active" -> [doc EXCEPT !.active = (w.value = 1)]
    [] w.prop = "x"      -> [doc EXCEPT !.x = w.value]

\* abstract isActive(doc), as the players table defines it.
isActive(doc) == doc.active

Without(f, id) == [k \in DOMAIN f \ {id} |-> f[k]]
With(f, id, doc) == [k \in DOMAIN f \cup {id} |-> IF k = id THEN doc ELSE f[k]]
SetAdd(seq, id) ==
  IF \E k \in DOMAIN seq : seq[k] = id THEN seq ELSE Append(seq, id)

\* The transaction ended with an exception out of save().
Aborted == lastOp.result = "Invalid modified id"

Mutated == IF sinceSave = "clean" THEN "mutated" ELSE sinceSave

\* GameTable.allIds(): the ids of the active cached documents, in the
\* cache's insertion order (ids are handed out in ascending order).
allIds == {id \in DOMAIN data : isActive(data[id])}

\* GameTable.insert(row).
insert(row) ==
  /\ ~Aborted
  /\ nextId <= MaxIds
  /\ store' = With(store, nextId, row)
  /\ data' = With(data, nextId, row)
  /\ nextId' = nextId + 1
  /\ lastOp' = Returned("ok")
  /\ sinceSave' = Mutated
  /\ UNCHANGED <<modified, deleted, handles, engineVars, routeVars, timeVars, utilVars>>

\* A delete that marks the id deleted whether or not it was cached.
delete_Unconditional(id) ==
  /\ ~Aborted
  /\ data' = Without(data, id)
  /\ deleted' = SetAdd(deleted, id)
  /\ lastOp' = Returned("ok")
  /\ sinceSave' = Mutated
  /\ UNCHANGED <<store, modified, handles, nextId, engineVars, routeVars, timeVars, utilVars>>

\* GameTable.delete(id).
delete(id) ==
  /\ ~Aborted
  /\ IF id \in DOMAIN data
     THEN /\ data' = Without(data, id)
          /\ deleted' = SetAdd(deleted, id)
          /\ sinceSave' = Mutated
     ELSE UNCHANGED <<data, deleted, sinceSave>>
  /\ lastOp' = Returned("ok")
  /\ UNCHANGED <<store, modified, handles, nextId, engineVars, routeVars, timeVars, utilVars>>

\* What lookup(id) does before it builds the proxy.
LookupResult(id) ==
  IF id \notin DOMAIN data THEN "Invalid ID"
  ELSE IF ~isActive(data[id]) THEN "ID is inactive"
  ELSE "ok"

\* A lookup that does not ask isActive.
lookup_NoActiveCheck(id) ==
  /\ ~Aborted
  /\ lastOp' = Returned(IF id \notin DOMAIN data THEN "Invalid ID" ELSE "ok")
  /\ handles' = IF id \in DOMAIN data THEN handles \cup {id} ELSE handles
  /\ UNCHANGED <<store, data, modified, deleted, nextId, sinceSave, engineVars,
                 routeVars, timeVars, utilVars>>

\* GameTable.lookup(id): throws, or returns a proxy of the cached row.
lookup(id) ==
  /\ ~Aborted
  /\ lastOp' = Returned(LookupResult(id))
  /\ handles' = IF LookupResult(id) = "ok" THEN handles \cup {id} ELSE handles
  /\ UNCHANGED <<store, data, modified, deleted, nextId, sinceSave, engineVars,
                 routeVars, timeVars, utilVars>>

\* GameTable.find(f) with f(doc) = (doc.x = v): the first active document
\* that satisfies f, through lookup, or null.
find(v) ==
  /\ ~Aborted
  /\ LET hits == {id \in allIds : data[id].x = v}
         hit  == CHOOSE id \in hits : \A o \in hits : id <= o
     IN IF hits = {}
        THEN /\ lastOp' = Returned("null")
             /\ UNCHANGED handles
        ELSE /\ lastOp' = Returned("ok")
             /\ handles' = handles \cup {hit}
  /\ UNCHANGED <<store, data, modified, deleted, nextId, sinceSave, engineVars,
                 routeVars, timeVars, utilVars>>

\* GameTable.markModified(id).
markModified(id) ==
  IF id \notin DOMAIN data THEN modified
  ELSE IF ~isActive(data[id]) THEN modified
  ELSE SetAdd(modified, id)

\* A write through the proxy lookup(id) returned: the trap calls
\* markModified(id), then the Reflect operation changes the row object.  The
\* row object is the cached one for as long as the id is cached.
write(id, w) ==
  /\ ~Aborted
  /\ id \in handles
  /\ modified' = markModified(id)
  /\ data' = IF id \in DOMAIN data
             THEN [data EXCEPT ![id] = Reflect(@, w)] ELSE data
  /\ lastOp' = Returned("ok")
  /\ sinceSave' = Mutated
  /\ UNCHANGED <<store, deleted, handles, nextId, engineVars, routeVars, timeVars, utilVars>>

\* The store calls of save(): db.delete for every deleted id, then
\* db.replace for the modified ids up to the first one that is not cached.
RECURSIVE WithoutAll(_, _)
WithoutAll(f, seq) ==
  IF seq = << >> THEN f ELSE WithoutAll(Without(f, Head(seq)), Tail(seq))

RECURSIVE ReplaceAll(_, _)
ReplaceAll(f, seq) ==
  IF seq = << >> THEN f
  ELSE ReplaceAll(With(f, Head(seq), data[Head(seq)]), Tail(seq))

SaveReplaced ==
  LET bad == {k \in DOMAIN modified : modified[k] \notin DOMAIN data}
  IN IF bad = {} THEN modified
     ELSE SubSeq(modified, 1, (CHOOSE k \in bad : \A o \in bad : k <= o) - 1)

SaveOps ==
  [k \in DOMAIN deleted |-> [op |-> "delete", id |-> deleted[k]]]
    \o [k \in DOMAIN SaveReplaced |-> [op |-> "replace", id |-> SaveReplaced[k]]]

\* A save that forgets this.deleted.clear().
save_NoClearDeleted ==
  /\ ~Aborted
  /\ store' = ReplaceAll(WithoutAll(store, deleted), SaveReplaced)
  /\ IF SaveReplaced = modified
     THEN /\ modified' = << >>
          /\ UNCHANGED deleted
          /\ lastOp' = [op |-> "save", result |-> "ok", ops |-> SaveOps]
          /\ sinceSave' = "clean"
     ELSE /\ UNCHANGED <<modified, deleted, sinceSave>>
          /\ lastOp' = [op |-> "save", result |-> "Invalid modified id",
                        ops |-> SaveOps]
  /\ UNCHANGED <<data, handles, nextId, engineVars, routeVars, timeVars, utilVars>>

\* GameTable.save().  When a modified id is not cached it throws after the
\* store calls made so far, with both sets as they were.
save ==
  /\ ~Aborted
  /\ store' = ReplaceAll(WithoutAll(store, deleted), SaveReplaced)
  /\ IF SaveReplaced = modified
     THEN /\ modified' = << >>
          /\ deleted' = << >>
          /\ lastOp' = [op |-> "save", result |-> "ok", ops |-> SaveOps]
          /\ sinceSave' = "clean"
     ELSE /\ UNCHANGED <<modified, deleted, sinceSave>>
          /\ lastOp' = [op |-> "save", result |-> "Invalid modified id",
                        ops |-> SaveOps]
  /\ UNCHANGED <<data, handles, nextId, engineVars, routeVars, timeVars, utilVars>>

\* ================================================================ ROUTE

RouteIdle == route = [pc |-> "idle"]

\* ---------------------------------------------------------------- findRoute
\* Coordinates are counted in half tiles, so that a player halfway between
\* two tiles has integer coordinates, and time in the unit a player needs
\* for half a tile (500 / movementSpeed ms), so that
\* (segmentLength / movementSpeed) * 1000 is the segment's length.

Abs(n) == IF n < 0 THEN -n ELSE n
Point(x, y) == [x |-> x, y |-> y]
Vector(dx, dy) == [dx |-> dx, dy |-> dy]

\* Math.floor of a coordinate.
Floor(c) == c - (c % 2)

\* The square of distance(p0, p1), and distance itself where it is a whole
\* number of half tiles (it is for the axis-parallel segments of a route).
distance2(p0, p1) ==
  (p0.x - p1.x) * (p0.x - p1.x) + (p0.y - p1.y) * (p0.y - p1.y)
distance(p0, p1) ==
  CHOOSE d \in 0..(4 * MapSize) : d * d = distance2(p0, p1)

pointsEqual(p0, p1) == p0.x = p1.x /\ p0.y = p1.y

manhattanDistance(p0, p1) == Abs(p0.x - p1.x) + Abs(p0.y - p1.y)

\* pathPosition(path, time).position for a path of two or more waypoints.
RECURSIVE pathSegment(_, _, _)
pathSegment(path, time, i) ==
  LET segmentStart == path[i]
      segmentEnd == path[i + 1]
      span == segmentEnd.t - segmentStart.t
  IN IF segmentStart.t <= time /\ time <= segmentEnd.t
     THEN Point(segmentStart.position.x
                  + ((time - segmentStart.t)
                       * (segmentEnd.position.x - segmentStart.position.x))
                    \div span,
                segmentStart.position.y
                  + ((time - segmentStart.t)
                       * (segmentEnd.position.y - segmentStart.position.y))
                    \div span)
     ELSE pathSegment(path, time, i + 1)

pathPosition(path, time) ==
  IF time < path[1].t THEN path[1].position
  ELSE IF path[Len(path)].t < time THEN path[Len(path)].position
  ELSE pathSegment(path, time, 1)

\* Where a player is at a time: on its path if it has one, at its location
\* if it stands.
PositionAt(game, player, time) ==
  IF player.path = << >>
  THEN Point(game.locations[player.locationId].x,
             game.locations[player.locationId].y)
  ELSE pathPosition(player.path, time)

\* game.locations.lookup(now, locationId): the location as it is now.
locationsLookup(game, time, locationId) == game.locations[locationId]

\* A blockedWithPositions that does not look at the object tiles.
blockedWithPositions_NoObjects(position, otherPositions, map) ==
  IF \/ position.x < 0 \/ position.y < 0
     \/ position.x >= 2 * map.width \/ position.y >= 2 * map.height
  THEN "out of bounds"
  ELSE IF \E k \in DOMAIN otherPositions :
            4 * distance2(otherPositions[k], position)
              < COLLISION_THRESHOLD * COLLISION_THRESHOLD
  THEN "player"
  ELSE "null"

\* blockedWithPositions(position, otherPositions, map); COLLISION_THRESHOLD
\* is in quarter tiles and the distance in half tiles.
blockedWithPositions(position, otherPositions, map) ==
  IF \/ position.x < 0 \/ position.y < 0
     \/ position.x >= 2 * map.width \/ position.y >= 2 * map.height
  THEN "out of bounds"
  ELSE IF map.objectTiles[Floor(position.y)][Floor(position.x)] # -1
  THEN "world blocked"
  ELSE IF \E k \in DOMAIN otherPositions :
            4 * distance2(otherPositions[k], position)
              < COLLISION_THRESHOLD * COLLISION_THRESHOLD
  THEN "player"
  ELSE "null"

\* blocked(game, now, pos, playerId).
blocked(game, time, pos, playerId) ==
  LET others == SelectSeq(game.players, LAMBDA p : p._id # playerId)
      otherPositions ==
        [k \in DOMAIN others |->
           locationsLookup(game, time, others[k].locationId)]
  IN blockedWithPositions(pos, otherPositions, game.map)

\* MinHeap(compare) of findRoute: tree[1..] and endIndex; tree keeps what a
\* pop leaves behind at endIndex.
\* A compare that makes the heap give the dearest candidate first.
compare_Less(p0, p1) == p0.cost < p1.cost
compare(p0, p1) == p0.cost > p1.cost

EmptyHeap == [tree |-> << >>, endIndex |-> 1]

Store(tree, i, value) ==
  IF i > Len(tree) THEN Append(tree, value) ELSE [tree EXCEPT ![i] = value]

\* push that stores the new value at the end without moving it up.
pushLoop_AtEnd(tree, destinationIndex, newValue) ==
  Store(tree, destinationIndex, newValue)

RECURSIVE pushLoop(_, _, _)
pushLoop(tree, destinationIndex, newValue) ==
  LET nextToCheck == destinationIndex \div 2
  IN IF nextToCheck > 0 /\ ~compare(newValue, tree[nextToCheck])
     THEN pushLoop(Store(tree, destinationIndex, tree[nextToCheck]),
                   nextToCheck, newValue)
     ELSE Store(tree, destinationIndex, newValue)

push(heap, newValue) ==
  [tree |-> pushLoop(heap.tree, heap.endIndex, newValue),
   endIndex |-> heap.endIndex + 1]

RECURSIVE popLoop(_, _, _, _)
popLoop(tree, destinationIndex, endIndex, lastValue) ==
  LET first == destinationIndex * 2
      nextToCheck ==
        IF first + 1 <= endIndex /\ compare(tree[first], tree[first + 1])
        THEN first + 1 ELSE first
  IN IF first < endIndex /\ ~compare(tree[nextToCheck], lastValue)
     THEN popLoop(Store(tree, destinationIndex, tree[nextToCheck]),
                  nextToCheck, endIndex, lastValue)
     ELSE Store(tree, destinationIndex, lastValue)

pop(heap) ==
  IF heap.endIndex = 1 THEN [value |-> Null, heap |-> heap]
  ELSE LET endIndex == heap.endIndex - 1
       IN [value |-> heap.tree[1],
           heap |-> [tree |-> popLoop(heap.tree, 1, endIndex,
                                      heap.tree[endIndex]),
                     endIndex |-> endIndex]]

RECURSIVE pushAll(_, _)
pushAll(heap, candidates) ==
  IF candidates = << >> THEN heap
  ELSE pushAll(push(heap, Head(candidates)), Tail(candidates))


\* ======================================================== SPECIFICATIONS

\* The state after `init` created the default world at time 0: the world is
\* running, its engine is running with generation 0 and its first step is
\* scheduled.
Init ==
  /\ worlds = <<[engineId |-> 1, isDefault |-> TRUE, status |-> "running"]>>
  /\ now = 0
  /\ engines = <<NewEngine>>
  /\ inputs = << >>
  /\ players = << >>
  /\ scheduled = SetToBag({Job(1, 0, 0)})
  /\ applied = << << >> >>
  /\ lastStep = "none"
  /\ TableIdle
  /\ RouteIdle
  /\ TimeIdle
  /\ UtilIdle

Next ==
  \/ \E w \in DOMAIN worlds, n \in PlayerNames : sendInput(w, "join", n)
  \/ \E j \in BagToSet(scheduled) : runStep(j)
  \/ kick
  \/ stop
  \/ resume
  \/ Advance

Spec == Init /\ [][Next]_vars

\* ---------------------------------------------------------------- table

\* new GameTable(rows): the cache holds the table's rows as stored.
InitTable ==
  /\ \E n \in 0..MaxIds :
       /\ store \in [1..n -> NewDocs]
       /\ nextId = n + 1
  /\ data = store
  /\ modified = << >>
  /\ deleted = << >>
  /\ handles = {}
  /\ lastOp = Returned("ok")
  /\ sinceSave = "new"
  /\ EngineIdle
  /\ RouteIdle
  /\ TimeIdle
  /\ UtilIdle

NextTable ==
  \/ \E row \in NewDocs : insert(row)
  \/ \E id \in 1..MaxIds : delete(id)
  \/ \E id \in 1..MaxIds : lookup(id)
  \/ \E v \in Vals : find(v)
  \/ \E id \in handles, w \in Writes : write(id, w)
  \/ save

SpecTable == InitTable /\ [][NextTable]_vars

\* findRoute.explore(current): the neighbours that are not blocked and not
\* beaten by minDistances, in order, and minDistances as the loop leaves it.
\* `prev` is the chain of prev links, written as the sequence of the
\* waypoints before the candidate, the start first.
Waypoint(candidate) ==
  [position |-> candidate.position, facing |-> candidate.facing,
   t |-> candidate.t]

neighbors(position) ==
  LET x == position.x
      y == position.y
  IN (IF x # Floor(x)
      THEN <<[position |-> Point(Floor(x), y), facing |-> Vector(-1, 0)],
             [position |-> Point(Floor(x) + 2, y), facing |-> Vector(1, 0)]>>
      ELSE << >>)
     \o (IF y # Floor(y)
         THEN <<[position |-> Point(x, Floor(y)), facing |-> Vector(0, -1)],
                [position |-> Point(x, Floor(y) + 2), facing |-> Vector(0, 1)]>>
         ELSE << >>)
     \o (IF x = Floor(x) /\ y = Floor(y)
         THEN <<[position |-> Point(x + 2, y), facing |-> Vector(1, 0)],
                [position |-> Point(x - 2, y), facing |-> Vector(-1, 0)],
                [position |-> Point(x, y + 2), facing |-> Vector(0, 1)],
                [position |-> Point(x, y - 2), facing |-> Vector(0, -1)]>>
         ELSE << >>)

\* An explore that discards no candidate.
discarded_Never(minDistances, position, cost) == FALSE

\* existingMin && existingMin.cost <= path.cost
discarded(minDistances, position, cost) ==
  /\ position \in DOMAIN minDistances
  /\ minDistances[position] <= cost

RECURSIVE exploreLoop(_, _, _, _, _)
exploreLoop(r, current, ns, minDistances, next) ==
  IF ns = << >> THEN [next |-> next, minDistances |-> minDistances]
  ELSE
    LET position == Head(ns).position
        segmentLength == distance(current.position, position)
        length == current.length + segmentLength
        path == [position |-> position,
                 facing |-> Head(ns).facing,
                 t |-> current.t + segmentLength,
                 length |-> length,
                 cost |-> length + manhattanDistance(position, r.destination),
                 prev |-> Append(current.prev, Waypoint(current))]
    IN IF blocked(r.game, r.now, position, r.player._id) # "null"
       THEN exploreLoop(r, current, Tail(ns), minDistances, next)
       ELSE IF discarded(minDistances, position, path.cost)
       THEN exploreLoop(r, current, Tail(ns), minDistances, next)
       ELSE exploreLoop(r, current, Tail(ns),
                        With(minDistances, position, path.cost),
                        Append(next, path))

explore(r, current) ==
  exploreLoop(r, current, neighbors(current.position), r.minDistances, << >>)

\* A path that gives every waypoint but the last the time of its successor
\* as well as its facing.
densePath_LateTimes(current) ==
  LET chain == Append(current.prev, Waypoint(current))
  IN [i \in DOMAIN chain |->
        [position |-> chain[i].position,
         t |-> IF i < Len(chain) THEN chain[i + 1].t ELSE chain[i].t,
         facing |-> IF i < Len(chain) THEN chain[i + 1].facing
                    ELSE chain[i].facing]]

\* The returned path: the chain of prev links from the start, every waypoint
\* but the last facing as its successor does.
densePath(current) ==
  LET chain == Append(current.prev, Waypoint(current))
  IN [i \in DOMAIN chain |->
        [position |-> chain[i].position,
         t |-> chain[i].t,
         facing |-> IF i < Len(chain) THEN chain[i + 1].facing
                    ELSE chain[i].facing]]

\* A choice of the best candidate that also takes a candidate as close as
\* the best one so far.
closest_OrEqual(current, bestCandidate, destination) ==
  IF manhattanDistance(current.position, destination)
       <= manhattanDistance(bestCandidate.position, destination)
  THEN current ELSE bestCandidate

\* The best candidate after `current` is looked at: `current` if it is
\* closer to the destination.
closest(current, bestCandidate, destination) ==
  IF manhattanDistance(current.position, destination)
       < manhattanDistance(bestCandidate.position, destination)
  THEN current ELSE bestCandidate

\* One turn of the search loop for a current candidate that is not the
\* destination: explore, push what it returns, pop the next candidate.
findRouteStep ==
  /\ route.pc = "search"
  /\ route.current # Null
  /\ ~pointsEqual(route.current.position, route.destination)
  /\ LET current == route.current
         bestCandidate ==
           closest(current, route.bestCandidate, route.destination)
         explored == explore(route, current)
         popped == pop(pushAll(route.minheap, explored.next))
     IN route' = [route EXCEPT !.bestCandidate = bestCandidate,
                               !.minDistances = explored.minDistances,
                               !.minheap = popped.heap,
                               !.current = popped.value]
  /\ UNCHANGED <<engineVars, tableVars, timeVars, utilVars>>

\* The search loop has ended: at the destination, or with nothing left to
\* pop.
findRouteReturn ==
  /\ route.pc = "search"
  /\ IF route.current = Null THEN TRUE
     ELSE pointsEqual(route.current.position, route.destination)
  /\ route' =
       [route EXCEPT
          !.pc = "done",
          !.result =
            IF route.current # Null
            THEN [kind |-> "route", path |-> densePath(route.current),
                  newDestination |-> Null]
            ELSE IF route.bestCandidate.length = 0 THEN Null
            ELSE [kind |-> "route",
                  path |-> densePath(route.bestCandidate),
                  newDestination |-> route.bestCandidate.position]]
  /\ UNCHANGED <<engineVars, tableVars, timeVars, utilVars>>

\* The maps: MapSize tiles wide and two tiles high, all tiles free or one
\* tile with an object on it.
Coords == 0..(2 * MapSize - 1)
Rows == 0..3
TileCoords == {c \in Coords : c = Floor(c)}
TileRows == {c \in Rows : c = Floor(c)}
TilePoints == {Point(x, y) : x \in TileCoords, y \in TileRows}
Maps ==
  {[width |-> MapSize, height |-> 2,
    objectTiles |-> [y \in TileRows |-> [x \in TileCoords |->
                       IF Point(x, y) \in objects THEN 0 ELSE -1]]] :
     objects \in {{}} \cup {{p} : p \in TilePoints}}

\* The other player: there is none, or it stands on a tile, or it walks from
\* a tile to the next one to the right or below, setting out at the query
\* time or half a tile before.
Walk(from, to, t0) ==
  LET facing == Vector((to.x - from.x) \div 2, (to.y - from.y) \div 2)
  IN <<[position |-> from, facing |-> facing, t |-> t0],
       [position |-> to, facing |-> facing, t |-> t0 + 2]>>

Others(time) ==
  {[path |-> << >>, at |-> Null]}
    \cup {[path |-> << >>, at |-> p] : p \in TilePoints}
    \cup {[path |-> Walk(leg.from, leg.to, t0),
           at |-> pathPosition(Walk(leg.from, leg.to, t0), time)] :
            leg \in {l \in [from : TilePoints, to : TilePoints] :
                       \/ l.to = Point(l.from.x + 2, l.from.y)
                       \/ l.to = Point(l.from.x, l.from.y + 2)},
            t0 \in {time - 1, time}}

\* findRoute(game, now, player, destination) is called at time MaxNow: the
\* players are where the game can have them, neither blocked.
InitRoute ==
  /\ \E map \in Maps, destination \in TilePoints, o \in Others(MaxNow),
        start \in {p \in [x : Coords, y : Rows] :
                     p.x = Floor(p.x) \/ p.y = Floor(p.y)} :
       LET time == MaxNow
           otherPath == o.path
           other == o.at
           game == [players |->
                      <<[_id |-> 1, locationId |-> 1, path |-> << >>]>>
                        \o (IF other = Null THEN << >>
                            ELSE <<[_id |-> 2, locationId |-> 2,
                                    path |-> otherPath]>>),
                    locations |->
                      <<[x |-> start.x, y |-> start.y, dx |-> 0, dy |-> 1]>>
                        \o (IF other = Null THEN << >>
                            ELSE <<[x |-> other.x, y |-> other.y,
                                    dx |-> 0, dy |-> 1]>>),
                    map |-> map]
           startingLocation == locationsLookup(game, time, 1)
           startingPosition == Point(startingLocation.x, startingLocation.y)
           current == [position |-> startingPosition,
                       facing |-> Vector(startingLocation.dx,
                                         startingLocation.dy),
                       t |-> time,
                       length |-> 0,
                       cost |-> manhattanDistance(startingPosition,
                                                  destination),
                       prev |-> << >>]
       IN /\ blocked(game, time, start, 1) = "null"
          /\ other # Null => blocked(game, time, other, 2) = "null"
          /\ otherPath # << >> =>
               blockedWithPositions(otherPath[2].position, << >>, map) = "null"
          /\ route = [pc |-> "search", game |-> game, now |-> time,
                      player |-> game.players[1],
                      destination |-> destination,
                      current |-> current, bestCandidate |-> current,
                      minheap |-> EmptyHeap,
                      minDistances |-> << >>,
                      result |-> NoReturn]
  /\ EngineIdle
  /\ TableIdle
  /\ TimeIdle
  /\ UtilIdle

NextRoute ==
  \/ findRouteStep
  \/ findRouteReturn

SpecRoute == InitRoute /\ [][NextRoute]_vars

\* ================================================================== TIME

\* Engine and client times are multiples of one frame, in ms; the rates
\* 0.8 and 1.2 keep every time a whole number of ms.
Frame == SOFT_MAX_SERVER_BUFFER_AGE \div 2

\* The engine documents a client can be handed: an engine that has not
\* stepped yet has no times (-1 for undefined); the times of one that has
\* are clock readings, positive, and a step does not end before it started.
EngineStatuses ==
  {[currentTime |-> -1, lastStepTs |-> -1]} \cup
  {st \in [currentTime : {Frame * k : k \in 1..MaxServerTs},
           lastStepTs  : {Frame * k : k \in 1..MaxServerTs}] :
     st.lastStepTs <= st.currentTime}

\* The readings of the client's clock.
ClientTimes == {Frame * k : k \in 0..MaxClientTs}

\* JavaScript's !x for an optional number: undefined and 0 are falsy.
Falsy(x) == x = -1 \/ x = 0

\* The history of a historicalServerTime call: what it returned, the call
\* before it, and the time pair the manager remembered when it began.
Called(op, threw, result) ==
  [op |-> op, threw |-> threw, result |-> result, prevOp |-> lastCall.op,
   prevClientTs |-> prevClientTs, prevServerTs |-> prevServerTs]

\* The history of a receive: the currentTime it was given, whether it
\* threw, and the manager's fields when it began.
Received(engineStatus, threw) ==
  [op |-> "receive", threw |-> threw, result |-> -1, prevOp |-> lastCall.op,
   prevClientTs |-> prevClientTs, prevServerTs |-> prevServerTs,
   currentTime |-> engineStatus.currentTime,
   intervals |-> intervals, totalDuration |-> totalDuration]

\* receive with the order check made after the interval has been pushed.
receive_CheckAfterPush(engineStatus) ==
  /\ UNCHANGED <<prevClientTs, prevServerTs, engineVars, tableVars, routeVars, utilVars>>
  /\ IF Falsy(engineStatus.currentTime) \/ Falsy(engineStatus.lastStepTs)
     THEN /\ lastCall' = Received(engineStatus, FALSE)
          /\ UNCHANGED <<intervals, totalDuration>>
     ELSE LET latest == intervals[Len(intervals)]
              newInterval == [startTs |-> engineStatus.lastStepTs,
                              endTs   |-> engineStatus.currentTime]
          IN IF intervals # << >> /\ latest.endTs = engineStatus.currentTime
             THEN /\ lastCall' = Received(engineStatus, FALSE)
                  /\ UNCHANGED <<intervals, totalDuration>>
             ELSE /\ intervals' = Append(intervals, newInterval)
                  /\ totalDuration' =
                       totalDuration + (newInterval.endTs - newInterval.startTs)
                  /\ lastCall' =
                       Received(engineStatus,
                                intervals # << >>
                                  /\ latest.endTs > engineStatus.currentTime)

\* HistoricalTimeManager.receive.  The copy of the status it keeps in
\* latestEngineStatus is written and never read, and is left out of the state.
receive(engineStatus) ==
  /\ UNCHANGED <<prevClientTs, prevServerTs, engineVars, tableVars, routeVars, utilVars>>
  /\ IF Falsy(engineStatus.currentTime) \/ Falsy(engineStatus.lastStepTs)
     THEN /\ lastCall' = Received(engineStatus, FALSE)
          /\ UNCHANGED <<intervals, totalDuration>>
     ELSE LET latest == intervals[Len(intervals)]
              newInterval == [startTs |-> engineStatus.lastStepTs,
                              endTs   |-> engineStatus.currentTime]
          IN IF intervals # << >> /\ latest.endTs = engineStatus.currentTime
             THEN /\ lastCall' = Received(engineStatus, FALSE)
                  /\ UNCHANGED <<intervals, totalDuration>>
             ELSE IF intervals # << >> /\ latest.endTs > engineStatus.currentTime
             THEN \* throw new Error(`Received out-of-order engine status`)
                  /\ lastCall' = Received(engineStatus, TRUE)
                  /\ UNCHANGED <<intervals, totalDuration>>
             ELSE /\ intervals' = Append(intervals, newInterval)
                  /\ totalDuration' =
                       totalDuration + (newInterval.endTs - newInterval.startTs)
                  /\ lastCall' = Received(engineStatus, FALSE)

\* historicalServerTime with the smaller of the advanced time and the
\* age limit, where the source takes the larger.
rateAdjusted_Min(clientNow) ==
  LET prevClient == IF prevClientTs = -1 THEN clientNow ELSE prevClientTs
      prevServer == IF prevServerTs = -1 THEN intervals[1].startTs
                    ELSE prevServerTs
      lastServerTs == intervals[Len(intervals)].endTs
      bufferDuration == lastServerTs - prevServer
      rate == IF bufferDuration < SOFT_MIN_SERVER_BUFFER_AGE THEN 4
              ELSE IF bufferDuration > SOFT_MAX_SERVER_BUFFER_AGE THEN 6
              ELSE 5
  IN Min(prevServer + ((clientNow - prevClient) * rate) \div 5,
         lastServerTs - MAX_SERVER_BUFFER_AGE)

\* An advance at the rate 1, whatever the buffer holds.
advanced_Unit(clientNow) ==
  LET prevClient == IF prevClientTs = -1 THEN clientNow ELSE prevClientTs
      prevServer == IF prevServerTs = -1 THEN intervals[1].startTs
                    ELSE prevServerTs
  IN prevServer + (clientNow - prevClient)

\* prevServerTs + (clientNow - prevClientTs) * rate, the first argument of
\* the Math.max of historicalServerTime.
advanced(clientNow) ==
  LET prevClient == IF prevClientTs = -1 THEN clientNow ELSE prevClientTs
      prevServer == IF prevServerTs = -1 THEN intervals[1].startTs
                    ELSE prevServerTs
      lastServerTs == intervals[Len(intervals)].endTs
      bufferDuration == lastServerTs - prevServer
      \* the rate, in fifths
      rate == IF bufferDuration < SOFT_MIN_SERVER_BUFFER_AGE THEN 4
              ELSE IF bufferDuration > SOFT_MAX_SERVER_BUFFER_AGE THEN 6
              ELSE 5
  IN prevServer + ((clientNow - prevClient) * rate) \div 5

\* The rate-adjusted server time of historicalServerTime, before it is
\* fitted to the intervals.
rateAdjusted(clientNow) ==
  Max(advanced(clientNow),
      intervals[Len(intervals)].endTs - MAX_SERVER_BUFFER_AGE)

\* The loop of historicalServerTime over the intervals from index i on;
\* chosen is 0 for null.  The branch for a gap goes on to the next interval.
RECURSIVE chooseLoop(_, _, _, _)
chooseLoop(ivs, i, serverTs, chosen) ==
  IF i > Len(ivs) THEN [serverTs |-> serverTs, chosen |-> chosen]
  ELSE LET snapshot == ivs[i]
       IN IF snapshot.endTs < serverTs
          THEN chooseLoop(ivs, i + 1, serverTs, chosen)
          ELSE IF serverTs >= snapshot.startTs
          THEN [serverTs |-> serverTs, chosen |-> i]
          ELSE chooseLoop(ivs, i + 1, snapshot.startTs, i)

\* historicalServerTime keeping the time it computed when that time is past
\* every interval, where the source falls back to the last endTs.
choose_Extrapolate(ivs, serverTs) ==
  LET r == chooseLoop(ivs, 1, serverTs, 0)
  IN IF r.chosen = 0
     THEN [serverTs |-> serverTs, chosen |-> Len(ivs)]
     ELSE r

\* The interval and server time historicalServerTime settles on.
choose(ivs, serverTs) ==
  LET r == chooseLoop(ivs, 1, serverTs, 0)
  IN IF r.chosen = 0
     THEN [serverTs |-> ivs[Len(ivs)].endTs, chosen |-> Len(ivs)]
     ELSE r

RECURSIVE Duration(_)
Duration(ivs) ==
  IF ivs = << >> THEN 0
  ELSE (Head(ivs).endTs - Head(ivs).startTs) + Duration(Tail(ivs))

\* The history of a historicalServerTime call that went through the
\* computation: also the time it advanced to before the Math.max.
Computed_Time(clientNow, result) ==
  [op |-> "historicalServerTime", threw |-> FALSE, result |-> result,
   prevOp |-> lastCall.op, prevClientTs |-> prevClientTs,
   prevServerTs |-> prevServerTs, advanced |-> advanced(clientNow)]

\* A trim that drops the predecessor of the chosen interval as well.
toTrim_Predecessor(chosen) == chosen - 1

\* const toTrim = Math.max(chosen - 1, 0); chosen counts from 1 here and
\* from 0 in the source.
toTrim(chosen) == Max(chosen - 2, 0)

\* HistoricalTimeManager.historicalServerTime
historicalServerTime(clientNow) ==
  /\ UNCHANGED <<engineVars, tableVars, routeVars, utilVars>>
  /\ IF intervals = << >>
     THEN /\ lastCall' = Called("historicalServerTime", FALSE, -1)
          /\ UNCHANGED <<intervals, prevClientTs, prevServerTs, totalDuration>>
     ELSE IF clientNow = prevClientTs
     THEN /\ lastCall' =
               Called("historicalServerTime", FALSE, prevServerTs)
          /\ UNCHANGED <<intervals, prevClientTs, prevServerTs, totalDuration>>
     ELSE LET r == choose(intervals, rateAdjusted(clientNow))
              n == toTrim(r.chosen)
          IN /\ intervals' = SubSeq(intervals, n + 1, Len(intervals))
             /\ totalDuration' =
                  totalDuration - Duration(SubSeq(intervals, 1, n))
             /\ prevClientTs' = clientNow
             /\ prevServerTs' = r.serverTs
             /\ lastCall' = Computed_Time(clientNow, r.serverTs)

InitTime ==
  /\ TimeIdle
  /\ UtilIdle
  /\ EngineIdle
  /\ TableIdle
  /\ RouteIdle

NextTime ==
  \/ \E engineStatus \in EngineStatuses : receive(engineStatus)
  \/ \E clientNow \in ClientTimes : historicalServerTime(clientNow)

SpecTime == InitTime /\ [][NextTime]_vars

\* ================================================================== HEAP

\* MinHeap.peek
peek(h) == IF Len(h.tree) >= 1 THEN h.tree[1] ELSE Null

\* MinHeap.length
length(h) == h.endIndex - 1

\* The elements pushed: path candidates, of which compare reads the cost;
\* the id tells two candidates of one cost apart.
HeapValues == [cost : 0..(MaxLength - 1), id : 0..1]

\* The elements the heap holds, tree[1 .. endIndex - 1], as a bag.
RECURSIVE Contents(_, _)
Contents(tree, n) ==
  IF n = 0 THEN EmptyBag
  ELSE Contents(tree, n - 1) (+) SetToBag({tree[n]})

\* The history of a call on the heap: its argument or result, and the
\* elements held when it began.
HeapCalled(op, value) ==
  [op |-> op, value |-> value, heap |-> minheap,
   before |-> Contents(minheap.tree, length(minheap))]

MinHeap_push(newValue) ==
  /\ length(minheap) < MaxLength
  /\ minheap' = push(minheap, newValue)
  /\ heapCall' = HeapCalled("push", newValue)
  /\ UNCHANGED <<engineVars, tableVars, routeVars, timeVars, embedded, retry, content,
                 worldVars, hookVars>>

MinHeap_pop ==
  /\ minheap' = pop(minheap).heap
  /\ heapCall' = HeapCalled("pop", pop(minheap).value)
  /\ UNCHANGED <<engineVars, tableVars, routeVars, timeVars, embedded, retry, content,
                 worldVars, hookVars>>

MinHeap_peek ==
  /\ heapCall' = HeapCalled("peek", peek(minheap))
  /\ UNCHANGED <<minheap, engineVars, tableVars, routeVars, timeVars, embedded, retry, content,
                 worldVars, hookVars>>

InitHeap ==
  /\ HeapIdle
  /\ RetryIdle
  /\ ReadIdle
  /\ EmbedIdle
  /\ WorldIdle
  /\ HookIdle
  /\ EngineIdle
  /\ TableIdle
  /\ RouteIdle
  /\ TimeIdle

NextHeap ==
  \/ \E newValue \in HeapValues : MinHeap_push(newValue)
  \/ MinHeap_pop
  \/ MinHeap_peek

SpecHeap == InitHeap /\ [][NextHeap]_vars

\* ================================================================= RETRY

\* The functions of the client that call the service.
Callers == {"chatCompletion", "fetchEmbeddingBatch", "fetchModeration"}

\* What one request to the service comes to: an HTTP status, with a body
\* that has the expected field or not, or no response at all (fetch
\* rejects).
Responses ==
  [kind : {"response"}, status : {200, 400, 429, 500, 503},
   wellFormed : BOOLEAN]
    \cup {[kind |-> "rejected", status |-> 0, wellFormed |-> FALSE]}

\* The jitter added to a wait, RETRY_JITTER * Math.random(), in whole ms.
Jitters == {0, RETRY_JITTER - 1}

\* What the function passed to retryWithBackoff does with a response: it
\* returns, or throws a RetryError for a response that is not ok, or throws
\* a plain error, which carries no retry flag.
fn(response) ==
  IF response.kind = "rejected"
  THEN [kind |-> "throw", retry |-> FALSE, error |-> "fetch failed"]
  ELSE IF ~(response.status >= 200 /\ response.status <= 299)
  THEN [kind |-> "throw",
        retry |-> (response.status = 429 \/ response.status >= 500),
        error |-> "failed with code"]
  ELSE IF ~response.wellFormed
  THEN [kind |-> "throw", retry |-> FALSE, error |-> "Unexpected result"]
  ELSE [kind |-> "return", retry |-> FALSE, error |-> ""]

\* retryWithBackoff retrying whatever fn threw.
mayRetry_Always(i, retryError) == i < Len(RETRY_BACKOFF)

\* retryWithBackoff waiting the first backoff every time.
backoff_First(i) == RETRY_BACKOFF[1]

\* Whether retryWithBackoff waits and calls fn again after attempt i failed.
mayRetry(i, retryError) == i < Len(RETRY_BACKOFF) /\ retryError.retry

\* The wait after attempt i (counted from 0) failed, without the jitter.
backoff(i) == RETRY_BACKOFF[i + 1]

\* checkForAPIKey, at the head of chatCompletion, fetchEmbeddingBatch and
\* fetchModeration.
checkForAPIKey ==
  /\ retry.pc = "called"
  /\ retry' = IF env.OPENAI_API_KEY
              THEN [retry EXCEPT !.pc = "retryWithBackoff"]
              ELSE [retry EXCEPT !.pc = "threw",
                                 !.error = "Missing OPENAI_API_KEY"]
  /\ UNCHANGED <<engineVars, tableVars, routeVars, timeVars, embedded, heapVars, content,
                 worldVars, hookVars>>

\* One turn of the loop of retryWithBackoff: the call of fn, which makes a
\* request, and what follows it.
retryWithBackoff(response, jitter) ==
  /\ retry.pc = "retryWithBackoff"
  /\ retry.i <= Len(RETRY_BACKOFF)
  /\ LET e == fn(response)
         requested == [retry EXCEPT !.requests = Append(@, response)]
     IN retry' =
          IF e.kind = "return"
          THEN [requested EXCEPT !.pc = "returned", !.retries = retry.i]
          ELSE IF mayRetry(retry.i, e)
          THEN [requested EXCEPT
                  !.waits = Append(@, backoff(retry.i) + jitter),
                  !.i = @ + 1]
          ELSE [requested EXCEPT !.pc = "threw", !.error = e.error]
  /\ UNCHANGED <<engineVars, tableVars, routeVars, timeVars, embedded, heapVars, content,
                 worldVars, hookVars>>

InitRetry ==
  /\ retry \in [pc : {"called"}, caller : Callers,
                i : {0}, requests : {<< >>}, waits : {<< >>},
                retries : {-1}, error : {""}]
  /\ env \in [OPENAI_API_KEY : BOOLEAN]
  /\ maps = 1
  /\ creations = << >>
  /\ agents = << >>
  /\ lastInit = [op |-> "init", threw |-> FALSE, message |-> ""]
  /\ HeapIdle
  /\ ReadIdle
  /\ EmbedIdle
  /\ HookIdle
  /\ EngineIdle
  /\ TableIdle
  /\ RouteIdle
  /\ TimeIdle

NextRetry ==
  \/ checkForAPIKey
  \/ \E response \in Responses, jitter \in Jitters :
       retryWithBackoff(response, jitter)

SpecRetry == InitRetry /\ [][NextRetry]_vars

\* The service answers every request and every timer fires.
SpecRetryFair == SpecRetry /\ WF_vars(NextRetry)

\* ================================================================== READ

\* Strings are sequences of characters.
Alphabet == {"a", "b"}
Strings(n) == UNION {[1..k -> Alphabet] : k \in 0..n}

\* String.startsWith, at position from (counted from 0).
Matches(str, word, from) ==
  /\ from + Len(word) <= Len(str)
  /\ \A j \in 1..Len(word) : str[from + j] = word[j]

\* String.indexOf: the first position of word in str, -1 when there is none.
indexOf(str, word) ==
  IF \E from \in 0..Len(str) : Matches(str, word, from)
  THEN CHOOSE from \in 0..Len(str) :
         /\ Matches(str, word, from)
         /\ \A g \in 0..(from - 1) : ~Matches(str, word, g)
  ELSE -1

\* String.substring(0, idx)
substring(str, idx) == SubSeq(str, 1, idx)

\* suffixOverlapsPrefix: a suffix of s1 is a prefix of s2.
suffixOverlapsPrefix(s1, s2) ==
  \E i \in 1..Min(Len(s1), Len(s2)) :
    SubSeq(s1, Len(s1) - i + 1, Len(s1)) = SubSeq(s2, 1, i)

\* The loop of read() over the stop words from index k on: the index in
\* lastFragment of the first stop word of the list found in it, or -1, and
\* whether one of the words before it overlaps the end of lastFragment.
RECURSIVE stopLoop(_, _, _, _)
stopLoop(lastFragment, stopWords, k, hasOverlap) ==
  IF k > Len(stopWords) THEN [idx |-> -1, hasOverlap |-> hasOverlap]
  ELSE LET idx == indexOf(lastFragment, stopWords[k])
       IN IF idx >= 0 THEN [idx |-> idx, hasOverlap |-> hasOverlap]
          ELSE stopLoop(lastFragment, stopWords, k + 1,
                        hasOverlap
                          \/ suffixOverlapsPrefix(lastFragment, stopWords[k]))

\* One turn of the loop of read(): the next chunk from readInner, of n
\* characters.
read(n) ==
  /\ content.pc = "read"
  /\ n \in 1..Len(content.pending)
  /\ LET chunk == SubSeq(content.pending, 1, n)
         lastFragment == content.lastFragment \o chunk
         found == stopLoop(lastFragment, content.stopWords, 1, FALSE)
         taken == [content EXCEPT
                     !.pending = SubSeq(@, n + 1, Len(@))]
     IN content' =
          IF found.idx >= 0
          THEN [taken EXCEPT
                  !.yielded = Append(@, substring(lastFragment, found.idx)),
                  !.lastFragment = lastFragment,
                  !.pc = "done"]
          ELSE IF found.hasOverlap
          THEN [taken EXCEPT !.lastFragment = lastFragment]
          ELSE [taken EXCEPT !.yielded = Append(@, lastFragment),
                             !.lastFragment = << >>]
  /\ UNCHANGED <<engineVars, tableVars, routeVars, timeVars, embedded, heapVars, retry,
                 worldVars, hookVars>>

\* The end of the stream: read() yields what it held back.
readEnd ==
  /\ content.pc = "read"
  /\ content.pending = << >>
  /\ content' = [content EXCEPT !.yielded = Append(@, content.lastFragment),
                                !.pc = "done"]
  /\ UNCHANGED <<engineVars, tableVars, routeVars, timeVars, embedded, heapVars, retry,
                 worldVars, hookVars>>

\* The stop words of a request: a list of words of one or two characters.
StopWords == Strings(2) \ {<< >>}
StopWordLists == {<< >>} \cup {<<w>> : w \in StopWords}
                   \cup {<<w, v>> : w \in StopWords, v \in StopWords}

InitRead ==
  /\ \E output \in Strings(MaxOutput), stopWords \in StopWordLists :
       content = [pc |-> "read", output |-> output, stopWords |-> stopWords,
                  pending |-> output, lastFragment |-> << >>,
                  yielded |-> << >>]
  /\ EmbedIdle
  /\ HeapIdle
  /\ RetryIdle
  /\ WorldIdle
  /\ HookIdle
  /\ EngineIdle
  /\ TableIdle
  /\ RouteIdle
  /\ TimeIdle

NextRead ==
  \/ \E n \in 1..MaxOutput : read(n)
  \/ readEnd

SpecRead == InitRead /\ [][NextRead]_vars

\* ---------------------------------------------------------------- embed

\* fetchEmbeddingBatch on the response retryWithBackoff hands it.  The
\* service computes embeddingOf(text) for a text and answers with one entry
\* {index, embedding} per input, index counted from 0, in any order; a
\* response may also lack its last entry.  One call is followed.
MaxTexts == 3
Texts == {"sun", "moon", "star"}
TextLists == UNION {[1..n -> Texts] : n \in 1..MaxTexts}

embeddingOf(text) == [of |-> text]

\* The orders the entries of a response can come in.
Orders ==
  UNION {{o \in [1..n -> 1..n] : \A i, j \in 1..n : o[i] = o[j] => i = j} :
           n \in 0..MaxTexts}

\* json.data of the response to texts with its entries in the order o.
Data(texts, o) ==
  [k \in DOMAIN o |-> [index |-> o[k] - 1, embedding |-> embeddingOf(texts[o[k]])]]

\* The comparator of the sort: (a, b) => b.index - a.index.
byIndex(a, b) == b.index - a.index

\* allembeddings.sort(byIndex): a stable sort that puts a before b when
\* byIndex(a, b) < 0.
RECURSIVE sort(_)
sort(array) ==
  IF array = << >> THEN << >>
  ELSE LET sorted == sort(SubSeq(array, 1, Len(array) - 1))
           last == array[Len(array)]
           at == Cardinality({k \in DOMAIN sorted :
                                byIndex(sorted[k], last) <= 0})
       IN SubSeq(sorted, 1, at) \o <<last>>
            \o SubSeq(sorted, at + 1, Len(sorted))

\* The record of a call and how it ended (json is the response's data).
Embedded(op, texts, json) ==
  IF ~env.OPENAI_API_KEY
  THEN [pc |-> "threw", op |-> op, texts |-> texts, data |-> << >>,
        error |-> "Missing OPENAI_API_KEY"]
  ELSE IF Len(json) # Len(texts)
  THEN [pc |-> "threw", op |-> op, texts |-> texts, data |-> json,
        error |-> "Unexpected number of embeddings"]
  ELSE [pc |-> "returned", op |-> op, texts |-> texts, data |-> json,
        embeddings |-> [k \in DOMAIN json |-> sort(json)[k].embedding]]

\* fetchEmbeddingBatch(texts), the service answering in the order o.
fetchEmbeddingBatch(texts, o) ==
  /\ embedded.pc = "idle"
  /\ Len(o) \in {Len(texts) - 1, Len(texts)}
  /\ embedded' = Embedded("fetchEmbeddingBatch", texts, Data(texts, o))
  /\ UNCHANGED <<engineVars, tableVars, routeVars, timeVars, heapVars, retry,
                 content, worldVars, hookVars>>

\* fetchEmbedding(text): fetchEmbeddingBatch([text]) and embeddings[0].
fetchEmbedding(text, o) ==
  /\ embedded.pc = "idle"
  /\ Len(o) <= 1
  /\ embedded' = Embedded("fetchEmbedding", <<text>>, Data(<<text>>, o))
  /\ UNCHANGED <<engineVars, tableVars, routeVars, timeVars, heapVars, retry,
                 content, worldVars, hookVars>>

InitEmbed ==
  /\ EmbedIdle
  /\ env \in [OPENAI_API_KEY : BOOLEAN]
  /\ maps = 1
  /\ creations = << >>
  /\ agents = << >>
  /\ lastInit = [op |-> "init", threw |-> FALSE, message |-> ""]
  /\ HeapIdle
  /\ RetryIdle
  /\ ReadIdle
  /\ HookIdle
  /\ EngineIdle
  /\ TableIdle
  /\ RouteIdle
  /\ TimeIdle

NextEmbed ==
  \/ \E texts \in TextLists, o \in Orders : fetchEmbeddingBatch(texts, o)
  \/ \E text \in Texts, o \in Orders : fetchEmbedding(text, o)

SpecEmbed == InitEmbed /\ [][NextEmbed]_vars

\* ---------------------------------------------------------------- send

\* One call of the function useSendInput returns, per sender: the input
\* document it inserts, the client's copy of the inputStatus query on that
\* input, and the call's locals.  The engine's step is seen only through
\* its write of the input's returnValue.

Undefined == [kind |-> "undefined"]

\* The results a handler leaves on the input: ok(value) or error(message).
ReturnValues ==
  [kind : {"ok"}, value : {0, 1}] \cup
  [kind : {"error"}, message : {"DuplicateJoin"}]

Senders == 1..MaxSenders

\* query inputStatus on the sender's input: input.returnValue ?? null.  The
\* id comes from sendWorldInput, so the query's 'Invalid input ID' is out.
watchedStatus(s) ==
  IF sender[s].returnValue = NoReturn THEN Null ELSE sender[s].returnValue

\* A test that takes every loaded result for a status.
processed_Loaded(result) == result # Undefined

\* result !== undefined && result !== null
processed(result) == result # Undefined /\ result # Null

\* await convex.mutation(api.world.sendWorldInput, ...): the input is
\* inserted without a returnValue.
sendWorldInput(s) ==
  /\ sender[s].pc = "called"
  /\ sender' = [sender EXCEPT ![s].pc = "sent"]
  /\ UNCHANGED <<engineVars, tableVars, routeVars, timeVars, embedded, heapVars, retry,
                 content, worldVars, histories, lastQuery>>

\* A step of the engine applies the input and writes its returnValue.
applyInput(s, returnValue) ==
  /\ sender[s].pc # "called"
  /\ sender[s].returnValue = NoReturn
  /\ sender' = [sender EXCEPT ![s].returnValue = returnValue]
  /\ UNCHANGED <<engineVars, tableVars, routeVars, timeVars, embedded, heapVars, retry,
                 content, worldVars, histories, lastQuery>>

\* let result = watch.localQueryResult(); the promise is made only when the
\* result is undefined or null.
firstRead(s) ==
  /\ sender[s].pc = "sent"
  /\ sender' = [sender EXCEPT
       ![s].result = sender[s].local,
       ![s].pc = IF processed(sender[s].local) THEN "settling" ELSE "waiting",
       ![s].via = IF processed(sender[s].local) THEN "firstRead" ELSE "none"]
  /\ UNCHANGED <<engineVars, tableVars, routeVars, timeVars, embedded, heapVars, retry,
                 content, worldVars, histories, lastQuery>>

\* The client receives a new result of the query.  A sender that waits has
\* its onUpdate callback run: it reads the result and resolves the promise
\* when the result is a status.
onUpdate(s) ==
  /\ sender[s].pc \notin {"called"}
  /\ sender[s].local # watchedStatus(s)
  /\ sender' = [sender EXCEPT
       ![s].local = watchedStatus(s),
       ![s].result = IF sender[s].pc = "waiting" THEN watchedStatus(s) ELSE @,
       ![s].pc = IF sender[s].pc = "waiting" /\ processed(watchedStatus(s))
                 THEN "settling" ELSE @,
       ![s].via = IF sender[s].pc = "waiting" /\ processed(watchedStatus(s))
                  THEN "onUpdate" ELSE @]
  /\ UNCHANGED <<engineVars, tableVars, routeVars, timeVars, embedded, heapVars, retry,
                 content, worldVars, histories, lastQuery>>

\* The end of the call: throw on a missing result, throw the message of an
\* error, return the value of an ok.
settle(s) ==
  /\ sender[s].pc = "settling"
  /\ sender' = [sender EXCEPT ![s] =
       IF sender[s].result \in {Undefined, Null}
       THEN [@ EXCEPT !.pc = "rejected", !.message = "was never processed"]
       ELSE IF sender[s].result.kind = "error"
       THEN [@ EXCEPT !.pc = "rejected", !.message = sender[s].result.message]
       ELSE [@ EXCEPT !.pc = "resolved", !.value = sender[s].result.value]]
  /\ UNCHANGED <<engineVars, tableVars, routeVars, timeVars, embedded, heapVars, retry,
                 content, worldVars, histories, lastQuery>>

InitSend ==
  /\ sender = [s \in Senders |->
                 [pc |-> "called", returnValue |-> NoReturn,
                  local |-> Undefined, result |-> Undefined, via |-> "none",
                  value |-> -1, message |-> ""]]
  /\ HistoryIdle
  /\ HeapIdle
  /\ RetryIdle
  /\ ReadIdle
  /\ EmbedIdle
  /\ WorldIdle
  /\ EngineIdle
  /\ TableIdle
  /\ RouteIdle
  /\ TimeIdle

NextSend ==
  \/ \E s \in Senders : sendWorldInput(s)
  \/ \E s \in Senders, returnValue \in ReturnValues : applyInput(s, returnValue)
  \/ \E s \in Senders : firstRead(s)
  \/ \E s \in Senders : onUpdate(s)
  \/ \E s \in Senders : settle(s)

SpecSend == InitSend /\ [][NextSend]_vars

\* ---------------------------------------------------------------- world

\* The agents of data/characters, by name.
Descriptions == <<"alice">>

\* The message init throws without a key.
MissingKey ==
  "Missing OPENAI_API_KEY in environment variables. Get one at https://openai.com/ Paste it on the Convex dashboard"

Inited(threw, message) == [op |-> "init", threw |-> threw, message |-> message]

\* shouldCreateAgents(db, world): no player of the world has an agent and no
\* join input of its engine waits for its returnValue.
shouldCreateAgents(ins, worldId, engineId) ==
  /\ \A p \in DOMAIN players :
       players[p].worldId = worldId =>
         ~\E a \in DOMAIN agents : agents[a].playerId = p
  /\ \A i \in InputsOf(ins, engineId) :
       ~(ins[i].name = "join" /\ ins[i].returnValue = NoReturn)

\* The loop of init over Descriptions on the tables in st: insertInput
\* (which may kick the engine) and the completeAgentCreation job one second
\* later.
RECURSIVE createAgents(_, _, _, _)
createAgents(st, worldId, engineId, descriptions) ==
  IF descriptions = << >> THEN st
  ELSE LET e == st.engines[engineId]
           kicks == /\ e.state.kind = "running"
                    /\ e.state.scheduledSelfTs - now > INPUT_DELAY
                    /\ e.generationNumber < MaxGeneration
       IN createAgents(
            [inputs |-> Append(st.inputs,
               [engineId |-> engineId,
                number |-> NextInputNumber(st.inputs, engineId),
                name |-> "join", args |-> Head(descriptions), receivedTs |-> now,
                returnValue |-> NoReturn]),
             engines |-> IF kicks THEN kickEngine(st.engines, engineId)
                         ELSE st.engines,
             scheduled |-> IF kicks
                           THEN Schedule(st.scheduled,
                                  Job(engineId, e.generationNumber + 1, now))
                           ELSE st.scheduled,
             creations |-> Append(st.creations,
               [worldId |-> worldId, joinInputId |-> Len(st.inputs) + 1,
                character |-> Head(descriptions), runAt |-> now + 1000])],
            worldId, engineId, Tail(descriptions))

\* getOrCreateDefaultWorld and what init does with the world, once the key
\* was found: a missing default world is created running with a new engine
\* (whose first step is scheduled) and a new map; the agents join a running
\* world that needs them.
initWorld ==
  LET w == getDefaultWorld
      worldId == IF w = 0 THEN Len(worlds) + 1 ELSE w
      engineId == IF w = 0 THEN Len(engines) + 1 ELSE worlds[w].engineId
      created ==
        [worlds |-> IF w = 0
                    THEN Append(worlds, [engineId |-> engineId,
                                         isDefault |-> TRUE,
                                         status |-> "running"])
                    ELSE worlds,
         inputs |-> inputs,
         engines |-> IF w = 0 THEN Append(engines, NewEngine) ELSE engines,
         scheduled |-> IF w = 0
                       THEN Schedule(scheduled, Job(engineId, 0, now))
                       ELSE scheduled,
         creations |-> creations]
      st == IF /\ created.worlds[worldId].status = "running"
               /\ shouldCreateAgents(inputs, worldId, engineId)
            THEN createAgents(created, worldId, engineId, Descriptions)
            ELSE created
  IN /\ w = 0 => Len(worlds) < MaxWorlds
     /\ Len(st.inputs) <= MaxInputs
     /\ worlds' = created.worlds
     /\ maps' = IF w = 0 THEN maps + 1 ELSE maps
     /\ applied' = IF w = 0 THEN Append(applied, << >>) ELSE applied
     /\ engines' = st.engines
     /\ inputs' = st.inputs
     /\ scheduled' = st.scheduled
     /\ creations' = st.creations
     /\ lastInit' = Inited(FALSE, "")

\* An init that does not look for the key.
init_Unchecked ==
  /\ initWorld
  /\ UNCHANGED <<players, now, lastStep, env, agents, tableVars, routeVars,
                 timeVars, embedded, heapVars, retry, content, hookVars>>

\* mutation init.
init ==
  /\ IF ~env.OPENAI_API_KEY
     THEN /\ lastInit' = Inited(TRUE, MissingKey)
          /\ UNCHANGED <<worlds, engines, inputs, scheduled, applied, maps,
                         creations>>
     ELSE initWorld
  /\ UNCHANGED <<players, now, lastStep, env, agents, tableVars, routeVars,
                 timeVars, embedded, heapVars, retry, content, hookVars>>

\* internalMutation archive: the default world stops being the default,
\* unless its engine is running (then it throws).
archive ==
  LET w == getDefaultWorld IN
  /\ w # 0
  /\ engines[worlds[w].engineId].state.kind # "running"
  /\ worlds' = [worlds EXCEPT ![w].isDefault = FALSE]
  /\ UNCHANGED <<engines, inputs, players, scheduled, now, applied, lastStep,
                 tableVars, routeVars, timeVars, utilVars>>

\* A deployment before its first init: empty tables, the key set or not.
InitWorld ==
  /\ EngineIdle
  /\ env \in [OPENAI_API_KEY : BOOLEAN]
  /\ maps = 0
  /\ creations = << >>
  /\ agents = << >>
  /\ lastInit = [op |-> "new", threw |-> FALSE, message |-> ""]
  /\ HeapIdle
  /\ RetryIdle
  /\ ReadIdle
  /\ EmbedIdle
  /\ HookIdle
  /\ TableIdle
  /\ RouteIdle
  /\ TimeIdle

NextWorld ==
  \/ init
  \/ kick
  \/ stop
  \/ resume
  \/ archive
  \/ Advance

SpecWorld == InitWorld /\ [][NextWorld]_vars

\* ---------------------------------------------------------------- agents

RemoveAt(seq, k) == SubSeq(seq, 1, k - 1) \o SubSeq(seq, k + 1, Len(seq))

\* A completeAgentCreation that gives up on an input that is still
\* pending instead of scheduling itself again.
completeAgentCreation_NoRetry(k) ==
  /\ k \in DOMAIN creations
  /\ LET args == creations[k]
         returnValue == inputs[args.joinInputId].returnValue
     IN IF returnValue = NoReturn \/ returnValue.kind = "error"
        THEN /\ creations' = RemoveAt(creations, k)
             /\ UNCHANGED agents
        ELSE IF \E a \in DOMAIN agents :
                  agents[a].playerId = returnValue.value
        THEN /\ creations' = RemoveAt(creations, k)
             /\ UNCHANGED agents
        ELSE /\ creations' = RemoveAt(creations, k)
             /\ agents' = Append(agents, [worldId |-> args.worldId,
                                          playerId |-> returnValue.value])
  /\ UNCHANGED <<engineVars, env, maps, lastInit, tableVars, routeVars,
                 timeVars, embedded, heapVars, retry, content, hookVars>>

\* internalMutation completeAgentCreation, run by the scheduler for the job
\* k some time after it was scheduled (the moment is left open: the clock
\* of the model ends before the 5 s of a retry).  A pending input
\* reschedules the job; an error result or an agent that exists throws and
\* the job is gone; otherwise initAgent inserts the player's agent.
completeAgentCreation(k) ==
  /\ k \in DOMAIN creations
  /\ LET args == creations[k]
         returnValue == inputs[args.joinInputId].returnValue
     IN IF returnValue = NoReturn
        THEN /\ creations' = [creations EXCEPT ![k].runAt = now + 5000]
             /\ UNCHANGED agents
        ELSE IF returnValue.kind = "error"
        THEN /\ creations' = RemoveAt(creations, k)
             /\ UNCHANGED agents
        ELSE IF \E a \in DOMAIN agents :
                  agents[a].playerId = returnValue.value
        THEN /\ creations' = RemoveAt(creations, k)
             /\ UNCHANGED agents
        ELSE /\ creations' = RemoveAt(creations, k)
             /\ agents' = Append(agents, [worldId |-> args.worldId,
                                          playerId |-> returnValue.value])
  /\ UNCHANGED <<engineVars, env, maps, lastInit, tableVars, routeVars,
                 timeVars, embedded, heapVars, retry, content, hookVars>>

NextAgents ==
  \/ init
  \/ stop
  \/ \E j \in BagToSet(scheduled) : runStep(j)
  \/ \E k \in 1..MaxInputs : completeAgentCreation(k)
  \/ Advance

\* init, stop, the engine's steps and the agent creation jobs on a
\* deployment that starts empty.
SpecAgents == InitWorld /\ [][NextAgents]_vars

\* The scheduler runs every job it holds.
SpecAgentsFair ==
  SpecAgents /\ WF_vars(\E k \in 1..MaxInputs : completeAgentCreation(k))

\* A deployment before its first init, and one call of the OpenAI client in
\* the same environment.
InitKey ==
  /\ EngineIdle
  /\ env \in [OPENAI_API_KEY : BOOLEAN]
  /\ maps = 0
  /\ creations = << >>
  /\ agents = << >>
  /\ lastInit = [op |-> "new", threw |-> FALSE, message |-> ""]
  /\ retry \in [pc : {"called"}, caller : Callers,
                i : {0}, requests : {<< >>}, waits : {<< >>},
                retries : {-1}, error : {""}]
  /\ HeapIdle
  /\ ReadIdle
  /\ EmbedIdle
  /\ HookIdle
  /\ TableIdle
  /\ RouteIdle
  /\ TimeIdle

NextKey ==
  \/ init
  \/ NextRetry

SpecKey == InitKey /\ [][NextKey]_vars

\* ---------------------------------------------------------------- history

\* One HistoryManager and one field name.  A History is the unpacked buffer
\* of one document: {initialValue, samples: [{time, value}]}, its samples in
\* time order; `ref` is the object's identity (receive compares with ==).
SampleValues == {0, 2}
SampleTimes == 1..MaxSampleTime
Samples == [time : SampleTimes, value : SampleValues]

SampleLists ==
  {l \in UNION {[1..n -> Samples] : n \in 0..2} :
     \A k \in DOMAIN l : k > 1 => l[k - 1].time < l[k].time}

\* The samples of a list of histories, in order.
RECURSIVE Flatten(_)
Flatten(hs) ==
  IF hs = << >> THEN << >> ELSE Head(hs).samples \o Flatten(Tail(hs))

\* The buffers a later document can carry: new objects whose samples are
\* later than the ones received.
LaterHistories ==
  LET seen == Flatten(histories)
      last == IF seen = << >> THEN 0 ELSE seen[Len(seen)].time
      ref  == IF histories = << >> THEN 1
              ELSE histories[Len(histories)].ref + 1
  IN {[ref |-> ref, initialValue |-> v, samples |-> l] :
        v \in SampleValues,
        l \in {m \in SampleLists : \A k \in DOMAIN m : m[k].time > last}}

\* The record of a call: its result, the histories it found, every history
\* received so far (trimmed or not) and the latest time queried before it.
HistoryCalled(op, time, result, received) ==
  [op |-> op, time |-> time, result |-> result, before |-> histories,
   all |-> received, since |-> Max(lastQuery.since, lastQuery.time)]

\* receive(sampleRecord) with the object received last: nothing is pushed.
receiveSame ==
  /\ histories # << >>
  /\ lastQuery' = HistoryCalled("receive", -1, -1, lastQuery.all)
  /\ UNCHANGED <<histories, sender>>
  /\ UNCHANGED <<engineVars, tableVars, routeVars, timeVars, embedded, heapVars, retry,
                 content, worldVars>>

\* receive(sampleRecord) with a newly unpacked object: it is pushed.
receiveNew(history) ==
  /\ history.ref <= MaxHistories
  /\ histories' = Append(histories, history)
  /\ lastQuery' =
       HistoryCalled("receive", -1, -1, Append(lastQuery.all, history))
  /\ UNCHANGED <<sender, engineVars, tableVars, routeVars, timeVars, embedded, heapVars,
                 retry, content, worldVars>>

\* A scan that stops at a sample of the query time itself.
RECURSIVE queryLoop_Before(_, _, _, _, _)
queryLoop_Before(hs, historicalTime, i, k, currentValue) ==
  IF i > Len(hs) THEN [foundIndex |-> 0, currentValue |-> currentValue]
  ELSE IF k > Len(hs[i].samples)
  THEN queryLoop_Before(hs, historicalTime, i + 1, 1, currentValue)
  ELSE IF hs[i].samples[k].time >= historicalTime
  THEN [foundIndex |-> i, currentValue |-> currentValue]
  ELSE queryLoop_Before(hs, historicalTime, i, k + 1, hs[i].samples[k].value)

\* The loops of query over the histories from index i and the samples from
\* index k: the index of the first history with a sample later than
\* historicalTime (0: none) and the value of the last sample before it.
RECURSIVE queryLoop(_, _, _, _, _)
queryLoop(hs, historicalTime, i, k, currentValue) ==
  IF i > Len(hs) THEN [foundIndex |-> 0, currentValue |-> currentValue]
  ELSE IF k > Len(hs[i].samples)
  THEN queryLoop(hs, historicalTime, i + 1, 1, currentValue)
  ELSE IF hs[i].samples[k].time > historicalTime
  THEN [foundIndex |-> i, currentValue |-> currentValue]
  ELSE queryLoop(hs, historicalTime, i, k + 1, hs[i].samples[k].value)

\* HistoryManager.query(historicalTime) for the field: its value, and the
\* histories before the one found are dropped.  A field without a history
\* has no entry in the result (-1).
query(historicalTime) ==
  /\ IF histories = << >>
     THEN /\ lastQuery' = HistoryCalled("query", historicalTime, -1, lastQuery.all)
          /\ UNCHANGED histories
     ELSE LET found == queryLoop(histories, historicalTime, 1, 1,
                                 histories[1].initialValue)
          IN /\ lastQuery' =
                  HistoryCalled("query", historicalTime, found.currentValue,
                                lastQuery.all)
             /\ histories' =
                  IF found.foundIndex # 0
                  THEN SubSeq(histories, found.foundIndex, Len(histories))
                  ELSE histories
  /\ UNCHANGED <<sender, engineVars, tableVars, routeVars, timeVars, embedded, heapVars,
                 retry, content, worldVars>>

InitHistory ==
  /\ HistoryIdle
  /\ SendIdle
  /\ HeapIdle
  /\ RetryIdle
  /\ ReadIdle
  /\ EmbedIdle
  /\ WorldIdle
  /\ EngineIdle
  /\ TableIdle
  /\ RouteIdle
  /\ TimeIdle

NextHistory ==
  \/ receiveSame
  \/ \E history \in LaterHistories : receiveNew(history)
  \/ \E historicalTime \in SampleTimes : query(historicalTime)

SpecHistory == InitHistory /\ [][NextHistory]_vars

\* ================================================================ CLAIMS

\* The inputs of an engine, in insertion order.
InputSeq(engineId) == SelectSeq(inputs, LAMBDA x : x.engineId = engineId)

Range(f) == {f[i] : i \in DOMAIN f}

\* The pending jobs of an engine's current generation, counted.
RECURSIVE BagCount(_, _)
BagCount(bag, S) ==
  IF S = {} THEN 0
  ELSE LET j == CHOOSE x \in S : TRUE
       IN CopiesIn(j, bag) + BagCount(bag, S \ {j})

CurrentJobs(e) ==
  BagCount(scheduled,
    {j \in BagToSet(scheduled) :
       j.engineId = e /\ j.generationNumber = engines[e].generationNumber})

StaleJobs(e) ==
  {j \in BagToSet(scheduled) :
     j.engineId = e /\ j.generationNumber < engines[e].generationNumber}

\* A runStep leaves everything but the scheduler's record of its own job.
StepCommitsNothing(j) ==
  /\ UNCHANGED <<worlds, engines, inputs, players, applied>>
  /\ scheduled' = scheduled (-) SetToBag({j})

C1_State ==
  \A e \in DOMAIN engines :
    LET s == InputSeq(e) IN
    /\ \A k \in 1..Len(s) : s[k].number = k - 1
    /\ applied[e] = [k \in 1..(engines[e].processedInputNumber + 1) |-> k - 1]
    /\ \A i \in InputsOf(inputs, e) :
         /\ inputs[i].returnValue # NoReturn <=> inputs[i].number \in Range(applied[e])
         /\ inputStatus(i) # Null <=> inputs[i].number \in Range(applied[e])
         /\ inputStatus(i) # Null => inputStatus(i) = inputs[i].returnValue

C1_Step ==
  /\ \A i \in DOMAIN inputs :
       /\ i \in DOMAIN inputs'
       /\ inputs'[i].number = inputs[i].number
       /\ inputs'[i].engineId = inputs[i].engineId
       /\ inputs[i].returnValue # NoReturn => inputs'[i] = inputs[i]
       /\ inputStatus(i) # Null => inputStatus(i)' = inputStatus(i)
  /\ \A e \in DOMAIN engines :
       /\ Len(applied[e]) <= Len(applied'[e])
       /\ SubSeq(applied'[e], 1, Len(applied[e])) = applied[e]

\* C1: per engine, the inputs are numbered 0, 1, 2, ... in insertion order;
\* the engine has applied exactly the numbers 0..processedInputNumber, in
\* ascending order and once each; an input has a returnValue (and
\* inputStatus a result instead of null) exactly when it was applied, and
\* once set neither ever changes.
C1_InputOrder == [](C1_State) /\ [][C1_Step]_vars

\* Two inputs were applied, one of them refused, while the engine was kicked.
C1_Witness ==
  /\ applied[1] = <<0, 1>>
  /\ \E i \in DOMAIN inputs : inputStatus(i).kind = "error"
  /\ \E i \in DOMAIN inputs : inputStatus(i).kind = "ok"
  /\ engines[1].generationNumber > 0

\* C2: a runStep whose generation is smaller than the engine's commits
\* nothing: worlds, engine, inputs and game state stay as they are and the
\* scheduler only loses the job that ran.
C2_GenerationFence ==
  [][\A j \in BagToSet(scheduled) :
       (runStep(j) /\ j.generationNumber < engines[j.engineId].generationNumber)
         => StepCommitsNothing(j)]_vars

\* A stale step has just run against a running engine with pending input.
C2_Witness ==
  /\ lastStep = "fencedGeneration"
  /\ engines[1].state.kind = "running"
  /\ \E i \in DOMAIN inputs : inputs[i].returnValue = NoReturn

\* C3 as stated: a running engine has exactly one pending step of its
\* generation, a stopped engine none.
C3_Original ==
  \A e \in DOMAIN engines :
    CurrentJobs(e) = (IF engines[e].state.kind = "running" THEN 1 ELSE 0)

\* C3 amended: a running engine has exactly one pending step of its
\* generation; a stopped engine has at most one (the step that was pending
\* when it was stopped, until the scheduler runs it).
C3_OneCurrentStep ==
  \A e \in DOMAIN engines :
    IF engines[e].state.kind = "running"
    THEN CurrentJobs(e) = 1
    ELSE CurrentJobs(e) <= 1

\* A running engine after two kicks or resumes, with a stale step still
\* pending beside the current one.
C3_Witness ==
  /\ engines[1].state.kind = "running"
  /\ engines[1].generationNumber = 2
  /\ StaleJobs(1) # {}
  /\ CurrentJobs(1) = 1

\* C4: once stop has committed (the world is stoppedByDeveloper), every
\* runStep exits without a write to worlds, engine, inputs or game state and
\* schedules nothing, until resume.
C4_StoppedStepsExit ==
  [][\A j \in BagToSet(scheduled) :
       (/\ runStep(j)
        /\ getWorldId(j.engineId) # 0
        /\ worlds[getWorldId(j.engineId)].status = "stoppedByDeveloper")
         => StepCommitsNothing(j)]_vars

\* The step that was pending at the stop ran against the stopped engine
\* while an input was waiting.
C4_Witness ==
  /\ lastStep = "fencedStopped"
  /\ worlds[1].status = "stoppedByDeveloper"
  /\ engines[1].state.kind = "stopped"
  /\ \E i \in DOMAIN inputs : inputs[i].returnValue = NoReturn

\* ---------------------------------------------------------------- table

\* The ids the table has held and holds no more.
DeletedThroughTable == {id \in 1..(nextId - 1) : id \notin DOMAIN data}

DeleteCalls(ops, id) ==
  Cardinality({k \in DOMAIN ops : ops[k].op = "delete" /\ ops[k].id = id})

C5_CacheMatchesStore ==
  \A id \in DOMAIN data :
    (id \notin DOMAIN store \/ store[id] # data[id]) => id \in Range(modified)

C5_WriteMarks ==
  \A id \in handles, w \in Writes :
    (write(id, w) /\ id \in DOMAIN data /\ data' # data) =>
      id \in Range(modified')

\* C5 as stated, for the documents that are still cached: a write through a
\* handle that changes the document leaves the id in `modified`, and no
\* cached document differs from its stored row while its id is not in
\* `modified`.
C5_Original == [](C5_CacheMatchesStore) /\ [][C5_WriteMarks]_vars

\* C6 as stated: after a completed save() (and before the next mutation) the
\* store holds every cached document as cached and no row of an id deleted
\* through the table.
C6_Original ==
  sinceSave = "clean" =>
    /\ \A id \in DOMAIN data : id \in DOMAIN store /\ store[id] = data[id]
    /\ \A id \in DeletedThroughTable : id \notin DOMAIN store

\* C7: a save() that completes leaves `modified` and `deleted` empty, and a
\* save() with no mutation since the last completed save() completes, makes
\* no store call and leaves the store as it is.
C7_SaveIdempotent ==
  [][save =>
       /\ lastOp'.result = "ok" => modified' = << >> /\ deleted' = << >>
       /\ sinceSave = "clean" =>
            lastOp'.result = "ok" /\ lastOp'.ops = << >> /\ store' = store]_vars

\* A save() with nothing to do, after an earlier save() flushed a write.
C7_Witness ==
  /\ lastOp.op = "save" /\ lastOp.result = "ok" /\ lastOp.ops = << >>
  /\ sinceSave = "clean"
  /\ \E id \in DOMAIN store : store[id].x = -1

\* C8: lookup(id) fails with 'Invalid ID' when id is not cached and with
\* 'ID is inactive' when its document is inactive, succeeds otherwise, and a
\* failed lookup changes nothing.
C8_LookupFails ==
  [][\A id \in 1..MaxIds :
       lookup(id) =>
         /\ lastOp'.result =
              (IF id \notin DOMAIN data THEN "Invalid ID"
               ELSE IF ~data[id].active THEN "ID is inactive" ELSE "ok")
         /\ lastOp'.result # "ok" =>
              UNCHANGED <<store, data, modified, deleted, handles>>]_vars

\* A lookup of a document that was deactivated through a handle has failed.
C8_Witness ==
  /\ lastOp.result = "ID is inactive"
  /\ modified # << >>
  /\ handles # {}

C9_State ==
  /\ \A i, j \in DOMAIN deleted : deleted[i] = deleted[j] => i = j
  /\ \A id \in Range(deleted) :
       /\ id \notin DOMAIN data
       /\ id \notin allIds
       /\ LookupResult(id) = "Invalid ID"
       /\ ~Aborted => id \in DOMAIN store
  /\ \A id \in DeletedThroughTable :
       id \in Range(deleted) \/ id \notin DOMAIN store

C9_Step ==
  /\ \A id \in 1..MaxIds :
       delete(id) =>
         IF id \in DOMAIN data
         THEN /\ id \notin DOMAIN data'
              /\ id \in Range(deleted')
              /\ UNCHANGED <<store, modified>>
         ELSE UNCHANGED <<store, data, modified, deleted>>
  /\ save =>
       \A id \in 1..MaxIds :
         /\ DeleteCalls(lastOp'.ops, id) = (IF id \in Range(deleted) THEN 1 ELSE 0)
         /\ id \in Range(deleted) => id \notin DOMAIN store'
  /\ \A id \in DeletedThroughTable : id \notin DOMAIN data'
  /\ handles' \ handles \subseteq allIds

\* C9: delete(id) of a cached id takes it out of the cache and into
\* `deleted`; from then on lookup fails, allIds and the handles find and
\* lookup give out never hold it, its row stays in the store until the next
\* save(), which deletes it with one store call; delete of an id that is not
\* cached changes nothing.
C9_Delete == [](C9_State) /\ [][C9_Step]_vars

\* A save() has deleted the row of a deleted document.
C9_Witness ==
  /\ lastOp.op = "save" /\ lastOp.result = "ok"
  /\ \E k \in DOMAIN lastOp.ops : lastOp.ops[k].op = "delete"
  /\ DeletedThroughTable # {}
  /\ DeletedThroughTable \cap DOMAIN store = {}

\* ---------------------------------------------------------------- route

\* A position within COLLISION_THRESHOLD of where a player other than the
\* routed one is at a time.
NearOther(r, position, time) ==
  \E k \in DOMAIN r.game.players :
    /\ r.game.players[k]._id # r.player._id
    /\ 4 * distance2(PositionAt(r.game, r.game.players[k], time), position)
         < COLLISION_THRESHOLD * COLLISION_THRESHOLD

C10_Rejects ==
  findRouteStep =>
    LET next == explore(route, route.current).next
    IN \A k \in DOMAIN next : ~NearOther(route, next[k].position, next[k].t)

C10_Result ==
  (route.pc = "done" /\ route.result.kind = "route") =>
    \A i \in 2..Len(route.result.path) :
      ~NearOther(route, route.result.path[i].position, route.result.path[i].t)

\* C10 as stated: explore keeps no neighbour that is within
\* COLLISION_THRESHOLD of where another player is at the neighbour's arrival
\* time, and no waypoint of a returned path after the start is within
\* COLLISION_THRESHOLD of where another player is at the waypoint's time.
C10_Original == [](C10_Result) /\ [][C10_Rejects]_vars

\* A findRoute call has returned a path.
Returned_Path == route.pc = "done" /\ route.result.kind = "route"

InsideMap(map, position) ==
  /\ 0 <= position.x /\ position.x < 2 * map.width
  /\ 0 <= position.y /\ position.y < 2 * map.height

\* C11: every waypoint of a returned path after the start is inside the map
\* and on a tile whose objectTiles entry is -1.
C11_WaypointsWalkable ==
  Returned_Path =>
    \A i \in 2..Len(route.result.path) :
      LET position == route.result.path[i].position
      IN /\ InsideMap(route.game.map, position)
         /\ route.game.map.objectTiles[Floor(position.y)][Floor(position.x)]
              = -1

\* A path of three or more waypoints was returned on a map with an object
\* within a tile of the start.
C11_Witness ==
  /\ Returned_Path
  /\ Len(route.result.path) >= 3
  /\ \E y \in TileRows, x \in TileCoords :
       /\ route.game.map.objectTiles[y][x] # -1
       /\ manhattanDistance(Point(x, y), route.result.path[1].position) <= 2

\* The routed player's position when findRoute is called.
StartOf(r) ==
  Point(r.game.locations[r.player.locationId].x,
        r.game.locations[r.player.locationId].y)

\* The moves open from a position: to a neighbouring lattice position that
\* is not blocked, with the length of the move.
Moves(r, p) ==
  {[position |-> n.position, length |-> distance(p, n.position)] :
     n \in {m \in Range(neighbors(p)) :
              blocked(r.game, r.now, m.position, r.player._id) = "null"}}

\* The length of the shortest sequence of moves from the start to every
\* position that can be reached, by relaxation to a fixed point.
RECURSIVE Relax(_, _)
Relax(r, D) ==
  LET reached == DOMAIN D
      steps == UNION {{[from |-> p, to |-> m.position, length |-> m.length] :
                         m \in Moves(r, p)} : p \in reached}
      lengths(q) == (IF q \in reached THEN {D[q]} ELSE {})
                      \cup {D[e.from] + e.length : e \in {f \in steps : f.to = q}}
      D2 == [q \in reached \cup {e.to : e \in steps} |->
               CHOOSE l \in lengths(q) : \A k \in lengths(q) : l <= k]
  IN IF D2 = D THEN D ELSE Relax(r, D2)

ShortestLengths(r) == Relax(r, [q \in {StartOf(r)} |-> 0])

RECURSIVE PathLength(_)
PathLength(path) ==
  IF Len(path) < 2 THEN 0
  ELSE distance(path[1].position, path[2].position) + PathLength(Tail(path))

\* C12: when the destination can be reached from the start by unblocked
\* moves, findRoute returns a path from the start at time `now` to the
\* destination, with newDestination null, as short as any sequence of
\* unblocked moves.
C12_ShortestRoute ==
  (route.pc = "done" /\ route.destination \in DOMAIN ShortestLengths(route))
    => /\ route.result.kind = "route"
       /\ route.result.newDestination = Null
       /\ LET path == route.result.path
          IN /\ path[1].position = StartOf(route)
             /\ path[1].t = route.now
             /\ path[Len(path)].position = route.destination
             /\ PathLength(path) = ShortestLengths(route)[route.destination]

\* A route to the destination was returned that is longer than the
\* Manhattan distance: the straight way is blocked.
C12_Witness ==
  /\ Returned_Path
  /\ route.result.newDestination = Null
  /\ route.destination \in DOMAIN ShortestLengths(route)
  /\ PathLength(route.result.path)
       > manhattanDistance(StartOf(route), route.destination)

\* The positions that unblocked moves lead to from the start, the start
\* among them.
Reachable(r) == DOMAIN ShortestLengths(r)

\* C13: when the destination cannot be reached, findRoute returns null if no
\* reachable position is closer (Manhattan) to the destination than the
\* start, and otherwise a path that ends at a reachable position as close
\* to the destination as any, which is also its newDestination.
C13_ClosestReachable ==
  (route.pc = "done" /\ route.destination \notin Reachable(route)) =>
    LET reach == Reachable(route)
        far(p) == manhattanDistance(p, route.destination)
    IN IF \A q \in reach : far(q) >= far(StartOf(route))
       THEN route.result = Null
       ELSE /\ route.result.kind = "route"
            /\ LET path == route.result.path
                   end == path[Len(path)].position
               IN /\ route.result.newDestination = end
                  /\ path[1].position = StartOf(route)
                  /\ end \in reach
                  /\ \A q \in reach : far(end) <= far(q)

\* A path to a new destination was returned, two or more moves long, for a
\* destination that cannot be reached.
C13_Witness ==
  /\ Returned_Path
  /\ route.destination \notin Reachable(route)
  /\ route.result.newDestination # Null
  /\ Len(route.result.path) >= 3

\* C14: along a returned path the timestamps strictly increase, and the
\* distance between two consecutive waypoints is the distance walked at
\* movementSpeed in the time between them (in the units of the model, half
\* tiles and the time for half a tile, the difference of the timestamps).
C14_PathTiming ==
  Returned_Path =>
    \A i \in 1..(Len(route.result.path) - 1) :
      LET a == route.result.path[i]
          b == route.result.path[i + 1]
      IN /\ a.t < b.t
         /\ distance2(a.position, b.position) = (b.t - a.t) * (b.t - a.t)

\* A path was returned with a first move of half a tile and a second of a
\* whole tile.
C14_Witness ==
  /\ Returned_Path
  /\ Len(route.result.path) >= 3
  /\ route.result.path[2].t - route.result.path[1].t = 1
  /\ route.result.path[3].t - route.result.path[2].t = 2

\* ---------------------------------------------------------------- C15
\* A call of historicalServerTime that returned a value.
Returned_Time == lastCall.op = "historicalServerTime" /\ lastCall.result # -1

\* The call before the last one was historicalServerTime too, so that no
\* receive changed the interval list between the two.
SameIntervalList == Returned_Time /\ lastCall.prevOp = "historicalServerTime"

\* C15: when historicalServerTime is called twice with no receive in between
\* and the second clientNow is not smaller than the first, the second
\* returned server time is not smaller than the first.  (The clientNow of a
\* call that returned a value is the prevClientTs it leaves, and the value
\* the prevServerTs it leaves.)
C15_Monotonic ==
  (SameIntervalList /\ prevClientTs >= lastCall.prevClientTs)
    => lastCall.result >= lastCall.prevServerTs

\* Two calls on the same list, the second half a second later on the client
\* clock and returning a later server time.
C15_Witness ==
  /\ SameIntervalList
  /\ prevClientTs > lastCall.prevClientTs
  /\ lastCall.prevClientTs # -1
  /\ lastCall.result > lastCall.prevServerTs

\* ---------------------------------------------------------------- C16
\* The endTs of the last received interval (trimming keeps the last one).
lastReceived == intervals[Len(intervals)].endTs

\* C16: every value historicalServerTime returns is at least the endTs of
\* the last received interval minus MAX_SERVER_BUFFER_AGE (1250 ms).
C16_Original ==
  Returned_Time => lastCall.result >= lastReceived - MAX_SERVER_BUFFER_AGE

\* ---------------------------------------------------------------- C17
\* The rate the last call applied, in fifths, and the server time it
\* advanced to before the age limit and the intervals were applied.
RateOfLastCall ==
  LET bufferDuration == lastReceived - lastCall.prevServerTs
  IN IF bufferDuration < SOFT_MIN_SERVER_BUFFER_AGE THEN 4
     ELSE IF bufferDuration > SOFT_MAX_SERVER_BUFFER_AGE THEN 6
     ELSE 5

AdvancedTo ==
  lastCall.prevServerTs
    + ((prevClientTs - lastCall.prevClientTs) * RateOfLastCall) \div 5

\* The last call returned a value it computed from a remembered time pair.
Computed ==
  /\ Returned_Time
  /\ lastCall.prevServerTs # -1
  /\ prevClientTs # lastCall.prevClientTs

\* C17: every value historicalServerTime returns is at most the endTs of
\* the last received interval, however far the client clock has advanced.
C17_NoExtrapolation == Returned_Time => lastCall.result <= lastReceived

\* The client clock advanced playback past the last received endTs, and the
\* call returned that endTs.
C17_Witness ==
  /\ Computed
  /\ AdvancedTo > lastReceived
  /\ lastCall.result = lastReceived

\* ---------------------------------------------------------------- C18
\* Server time t lies inside one of the intervals.
Inside(ivs, t) == \E i \in DOMAIN ivs : ivs[i].startTs <= t /\ t <= ivs[i].endTs

\* Server time t lies in a gap: inside no interval, after the end of one
\* and before the start of another.
InGap(ivs, t) ==
  /\ ~Inside(ivs, t)
  /\ \E i \in DOMAIN ivs : ivs[i].endTs < t
  /\ \E i \in DOMAIN ivs : t < ivs[i].startTs

\* The start of the earliest interval that starts after t.
NextStart(ivs, t) ==
  CHOOSE b \in {ivs[i].startTs : i \in DOMAIN ivs} :
    /\ b > t
    /\ \A i \in DOMAIN ivs : ivs[i].startTs > t => b <= ivs[i].startTs

\* The intervals are ordered and do not overlap.
Ordered(ivs) ==
  /\ \A i \in DOMAIN ivs : ivs[i].startTs <= ivs[i].endTs
  /\ \A i \in 1..(Len(ivs) - 1) : ivs[i].endTs <= ivs[i + 1].startTs

\* A step of historicalServerTime that computes a value from client time
\* clientNow.
Computes(clientNow) ==
  /\ lastCall'.op = "historicalServerTime"
  /\ intervals # << >>
  /\ clientNow # prevClientTs
  /\ prevClientTs' = clientNow

\* C18: over ordered intervals, a rate-adjusted server time inside an
\* interval is returned unchanged, and one in a gap between intervals is
\* replaced by the startTs of the earliest interval starting after it.
C18_Original ==
  [][\A clientNow \in ClientTimes :
       (Computes(clientNow) /\ Ordered(intervals)) =>
         LET t == rateAdjusted(clientNow)
         IN /\ Inside(intervals, t) => lastCall'.result = t
            /\ InGap(intervals, t) =>
                 lastCall'.result = NextStart(intervals, t)]_vars

\* ---------------------------------------------------------------- C19
\* C19: the intervals the manager holds are ordered and pairwise
\* non-overlapping: a.startTs <= a.endTs <= b.startTs <= b.endTs for
\* consecutive intervals a, b.  (A receive that throws changes no interval.)
C19_Original == Ordered(intervals)

\* ---------------------------------------------------------------- C20
\* The last call was a receive of a status with a currentTime, on a manager
\* that held intervals.
ReceivedOnIntervals ==
  /\ lastCall.op = "receive"
  /\ lastCall.intervals # << >>
  /\ lastCall.currentTime # -1

\* The endTs of the last interval when the last receive began.
endTsBefore == lastCall.intervals[Len(lastCall.intervals)].endTs

\* C20: a receive of a status whose currentTime is smaller than the endTs
\* of the last interval throws and leaves intervals, totalDuration,
\* prevClientTs and prevServerTs as they were; a receive of a status whose
\* currentTime equals that endTs does not throw and adds no interval.
C20_OutOfOrder ==
  ReceivedOnIntervals =>
    /\ lastCall.currentTime < endTsBefore =>
         /\ lastCall.threw
         /\ intervals = lastCall.intervals
         /\ totalDuration = lastCall.totalDuration
         /\ prevClientTs = lastCall.prevClientTs
         /\ prevServerTs = lastCall.prevServerTs
    /\ lastCall.currentTime = endTsBefore =>
         /\ ~lastCall.threw
         /\ intervals = lastCall.intervals

\* A receive of an older status threw on a manager that holds intervals and
\* remembers a time pair.
C20_Witness ==
  /\ ReceivedOnIntervals
  /\ lastCall.currentTime < endTsBefore
  /\ lastCall.threw
  /\ prevClientTs # -1
  /\ prevServerTs # -1
  /\ totalDuration > 0

\* ---------------------------------------------------------------- C21
\* The elements the heap holds now.
Held == Contents(minheap.tree, length(minheap))

\* C21: a pop on a heap that holds elements returns one of them that is
\* strictly greater than none of them, and removes one occurrence of it; a
\* push adds one occurrence of the pushed element.
C21_PopOrder ==
  /\ (heapCall.op = "pop" /\ heapCall.before # EmptyBag) =>
       /\ BagIn(heapCall.value, heapCall.before)
       /\ \A x \in BagToSet(heapCall.before) : ~compare(heapCall.value, x)
       /\ Held = heapCall.before (-) SetToBag({heapCall.value})
  /\ heapCall.op = "push" =>
       Held = heapCall.before (+) SetToBag({heapCall.value})

\* A pop from three elements, one at least of a greater cost than the one
\* returned, that left the other two.
C21_Witness ==
  /\ heapCall.op = "pop"
  /\ BagCardinality(heapCall.before) = 3
  /\ \E x \in BagToSet(heapCall.before) : x.cost > heapCall.value.cost
  /\ BagCardinality(Held) = 2
  /\ \A x \in BagToSet(Held) : x.cost >= heapCall.value.cost

\* ---------------------------------------------------------------- C22
\* C22: peek returns what a pop in its place would return, undefined when
\* the heap holds no element, and leaves the heap as it was.
C22_Original ==
  heapCall.op = "peek" =>
    /\ heapCall.value = pop(heapCall.heap).value
    /\ length(heapCall.heap) = 0 => heapCall.value = Null
    /\ minheap = heapCall.heap

\* ---------------------------------------------------------------- C23
\* The response is a failure the service marks as worth retrying: HTTP 429
\* or a status of 500 and above.
Retriable(response) ==
  /\ response.kind = "response"
  /\ response.status = 429 \/ response.status >= 500

\* The call of fn that made the request failed.
Failed(response) == fn(response).kind = "throw"

\* C23: when a call of fn fails on anything but a retriable response, it is
\* the last call of fn, no wait follows it (each earlier call was followed
\* by one), and retryWithBackoff throws the error of that call.
C23_OnlyRetriable ==
  \A k \in DOMAIN retry.requests :
    (Failed(retry.requests[k]) /\ ~Retriable(retry.requests[k])) =>
      /\ k = Len(retry.requests)
      /\ Len(retry.waits) = k - 1
      /\ retry.pc = "threw"
      /\ retry.error = fn(retry.requests[k]).error

\* A retriable failure, a wait, then a 400: thrown after two calls of fn
\* and one wait.
C23_Witness ==
  /\ retry.pc = "threw"
  /\ Len(retry.requests) = 2
  /\ Retriable(retry.requests[1])
  /\ retry.requests[2].status = 400
  /\ Len(retry.waits) = 1

\* ---------------------------------------------------------------- C29
\* The call has ended.
Settled == retry.pc \in {"returned", "threw"}

\* fn is called at most four times; the k-th wait is the k-th backoff plus
\* a jitter below RETRY_JITTER; four retriable failures end in a throw; a
\* return reports as retries the number of calls of fn that failed.
C29_Bounded ==
  /\ Len(retry.requests) <= Len(RETRY_BACKOFF) + 1
  /\ Len(retry.waits) <= Len(RETRY_BACKOFF)
  /\ \A k \in DOMAIN retry.waits :
       /\ retry.waits[k] >= RETRY_BACKOFF[k]
       /\ retry.waits[k] < RETRY_BACKOFF[k] + RETRY_JITTER
  /\ (/\ Len(retry.requests) = Len(RETRY_BACKOFF) + 1
      /\ \A k \in DOMAIN retry.requests : Retriable(retry.requests[k])) =>
       retry.pc = "threw"
  /\ retry.pc = "returned" =>
       /\ retry.retries = Len(retry.requests) - 1
       /\ \A k \in 1..retry.retries : Failed(retry.requests[k])
       /\ Len(retry.waits) = retry.retries

\* C29: retryWithBackoff ends, and on the way it keeps the bounds above.
C29_Terminates == [](C29_Bounded) /\ <>Settled

\* Four retriable failures: three waits, then the throw.
C29_Witness ==
  /\ retry.pc = "threw"
  /\ Len(retry.requests) = 4
  /\ \A k \in DOMAIN retry.requests : Retriable(retry.requests[k])
  /\ Len(retry.waits) = 3
  /\ retry.waits[3] >= 20000

\* ---------------------------------------------------------------- C24
\* The positions in str at which one of the stop words begins.
StopPositions(str, stopWords) ==
  {from \in 0..Len(str) :
     \E k \in DOMAIN stopWords : Matches(str, stopWords[k], from)}

\* str cut immediately before the earliest stop word in it.
Truncated(str, stopWords) ==
  LET at == StopPositions(str, stopWords)
  IN IF at = {} THEN str
     ELSE substring(str, CHOOSE from \in at : \A g \in at : from <= g)

\* The chunks yielded so far, concatenated.
RECURSIVE Concat(_)
Concat(chunks) ==
  IF chunks = << >> THEN << >> ELSE Head(chunks) \o Concat(Tail(chunks))

\* C24: no yielded chunk contains a stop word, and when read() is done the
\* yielded chunks together are the output cut before its earliest stop
\* word.
C24_Original ==
  /\ \A c \in DOMAIN content.yielded :
       StopPositions(content.yielded[c], content.stopWords) = {}
  /\ content.pc = "done" =>
       Concat(content.yielded) = Truncated(content.output, content.stopWords)

\* ---------------------------------------------------------------- C25

Settled_Send(s) == sender[s].pc \in {"resolved", "rejected"}

\* C25: a sender settles only when its input has a status: with an ok
\* status it has resolved with the status's value, with an error status it
\* has rejected with the status's message, and while the input is pending
\* it has not settled, whichever of the first read and a later update
\* brought the status.
C25_SettlesOnStatus ==
  \A s \in Senders :
    Settled_Send(s) =>
      /\ sender[s].returnValue # NoReturn
      /\ sender[s].returnValue.kind = "ok" =>
           /\ sender[s].pc = "resolved"
           /\ sender[s].value = sender[s].returnValue.value
      /\ sender[s].returnValue.kind = "error" =>
           /\ sender[s].pc = "rejected"
           /\ sender[s].message = sender[s].returnValue.message

\* One sender resolved on its first read, another rejected on an update
\* that came after a first read without a status.
C25_Witness ==
  \E s, t \in Senders :
    /\ sender[s].pc = "resolved" /\ sender[s].via = "firstRead"
    /\ sender[t].pc = "rejected" /\ sender[t].via = "onUpdate"
    /\ sender[t].message = "DuplicateJoin"

\* ---------------------------------------------------------------- C26

NothingCreated ==
  /\ worlds = << >> /\ engines = << >> /\ maps = 0 /\ inputs = << >>
  /\ scheduled = EmptyBag /\ creations = << >>

\* C26: without OPENAI_API_KEY an init that was called has thrown the
\* message that says where to get and set the key, no world, engine, map,
\* input or scheduled job exists, and a call of the OpenAI client that has
\* left checkForAPIKey has thrown without a request or a wait.
C26_KeyRequired ==
  ~env.OPENAI_API_KEY =>
    /\ NothingCreated
    /\ lastInit.op = "init" => lastInit.threw /\ lastInit.message = MissingKey
    /\ retry.pc # "called" =>
         /\ retry.pc = "threw"
         /\ retry.error = "Missing OPENAI_API_KEY"
         /\ retry.requests = << >>
         /\ retry.waits = << >>

\* Without the key, init was called and the client's call has ended.
C26_Witness ==
  /\ ~env.OPENAI_API_KEY
  /\ lastInit.op = "init"
  /\ retry.pc = "threw"

\* ---------------------------------------------------------------- C27

DefaultWorlds == {w \in DOMAIN worlds : worlds[w].isDefault}

\* C27: once init has committed (a world exists), exactly one world has
\* isDefault = true.
C27_Original == worlds # << >> => Cardinality(DefaultWorlds) = 1

\* ---------------------------------------------------------------- C28

\* The last call was a query at a time strictly between the consecutive
\* samples k and k + 1 of the field.
QueriedBetween(k) ==
  /\ lastQuery.op = "query"
  /\ k + 1 \in DOMAIN Flatten(lastQuery.before)
  /\ Flatten(lastQuery.before)[k].time < lastQuery.time
  /\ lastQuery.time < Flatten(lastQuery.before)[k + 1].time

\* C28: a query strictly between two consecutive samples (t1, v1) and
\* (t2, v2) returns the value on the line from v1 to v2 at the query time:
\* (result - v1) * (t2 - t1) = (v2 - v1) * (time - t1).
C28_Original ==
  \A k \in 1..(2 * MaxHistories) :
    QueriedBetween(k) =>
      LET s1 == Flatten(lastQuery.before)[k]
          s2 == Flatten(lastQuery.before)[k + 1]
      IN (lastQuery.result - s1.value) * (s2.time - s1.time)
           = (s2.value - s1.value) * (lastQuery.time - s1.time)

\* ---------------------------------------------------------------- C30

\* C30: a call of historicalServerTime that computes from a remembered time
\* pair advances, before the age limit and the intervals are applied, to
\* prevServer + (clientNow - prevClient) * rate, with the rate 0.8 for a
\* buffer (last endTs - prevServer) below 100 ms, 1.2 for one above 1000 ms
\* and 1 otherwise.
C30_RateControl == Computed => lastCall.advanced = AdvancedTo

\* With more than a second buffered the call advanced at 1.2 and returned
\* the advanced time itself (as in: intervals (500,1000), (1000,2000),
\* playback at 500, the client clock 500 ms on: 1100).
C30_Witness ==
  /\ Computed
  /\ RateOfLastCall = 6
  /\ lastCall.advanced > lastCall.prevServerTs
  /\ lastCall.result = lastCall.advanced

\* ---------------------------------------------------------------- C31

\* A step in which historicalServerTime computed a value.
ComputingStep ==
  /\ lastCall'.op = "historicalServerTime"
  /\ lastCall'.result # -1
  /\ prevClientTs' # prevClientTs

\* The call enclosed its result in interval e of the list it found and
\* removed exactly the intervals before the predecessor of e.
TrimmedAround(e) ==
  /\ intervals[e].startTs <= prevServerTs'
  /\ prevServerTs' <= intervals[e].endTs
  /\ intervals' = SubSeq(intervals, Max(e - 2, 0) + 1, Len(intervals))

\* C31: a historicalServerTime call that computes a value leaves the
\* interval that contains the returned (and remembered) server time first
\* or second in `intervals`: the intervals before its predecessor are
\* removed and none from the predecessor on.
C31_Trimmed ==
  [][ComputingStep =>
       /\ prevServerTs' = lastCall'.result
       /\ \E e \in DOMAIN intervals : TrimmedAround(e)
       /\ \E c \in DOMAIN intervals' :
            /\ c <= 2
            /\ intervals'[c].startTs <= prevServerTs'
            /\ prevServerTs' <= intervals'[c].endTs]_vars

\* A call has trimmed: playback was at a time that no retained interval
\* holds any more, before the first of them, and the returned time is in the
\* second.
C31_Witness ==
  /\ Computed
  /\ Len(intervals) >= 2
  /\ lastCall.prevServerTs < intervals[1].startTs
  /\ ~Inside(intervals, lastCall.prevServerTs)
  /\ intervals[2].startTs <= prevServerTs
  /\ prevServerTs <= intervals[2].endTs
  /\ prevServerTs > intervals[1].endTs

\* ---------------------------------------------------------------- C32

InSeq(seq, id) == \E k \in DOMAIN seq : seq[k] = id

\* C32: every id in `modified` is cached, no id is both in `modified` and in
\* `deleted`, and no save() has thrown 'Invalid modified id'.
C32_Original ==
  /\ \A k \in DOMAIN modified : modified[k] \in DOMAIN data
  /\ \A k \in DOMAIN modified : ~InSeq(deleted, modified[k])
  /\ lastOp.result # "Invalid modified id"

\* ---------------------------------------------------------------- C33

\* C33: every path findRoute returns has two waypoints or more.
C33_Original == Returned_Path => Len(route.result.path) >= 2

\* ---------------------------------------------------------------- C34

\* In a turn of the search a position gets a new candidate only at a
\* strictly lower cost than its candidate so far.
CostImproves ==
  (route.pc = "search" /\ route'.pc = "search") =>
    \A position \in DOMAIN route.minDistances :
      route'.minDistances[position] <= route.minDistances[position]

\* The positions of the map, in half tiles, and a cost no candidate has.
Positions == [x : Coords, y : Rows]
CostCap == 8 * (MapSize + 2)

RECURSIVE SumOfCosts(_, _)
SumOfCosts(minDistances, ps) ==
  IF ps = {} THEN 0
  ELSE LET position == CHOOSE q \in ps : TRUE
       IN (IF position \in DOMAIN minDistances
           THEN minDistances[position] ELSE CostCap)
            + SumOfCosts(minDistances, ps \ {position})

\* The variant of the search loop: a push lowers the cost of its position
\* by one or more and adds one candidate to the open set, a pop takes one
\* out.
Rank(r) == 2 * SumOfCosts(r.minDistances, Positions) + (r.minheap.endIndex - 1)

\* A turn of the search that is followed by another one lowers the variant,
\* which is a natural number.
RankDecreases ==
  (route.pc = "search" /\ route'.pc = "search") =>
    /\ Rank(route') >= 0
    /\ DOMAIN route'.minDistances \subseteq Positions
    /\ \A position \in DOMAIN route'.minDistances :
         route'.minDistances[position] < CostCap
    /\ route'.current = Null \/ Rank(route') < Rank(route)

\* C34: findRoute ends for every map, start (on the grid or not),
\* destination and other player: no position is queued again unless its
\* cost improves, so every turn of the search loop that leaves a candidate
\* to look at lowers a natural number, and the loop has finitely many turns.
C34_Terminates == [][CostImproves /\ RankDecreases]_vars

\* The search ended with nothing left to pop, after the start position
\* itself had been queued as a candidate.
C34_Witness ==
  /\ route.pc = "done"
  /\ route.current = Null
  /\ StartOf(route) \in DOMAIN route.minDistances
  /\ Cardinality(DOMAIN route.minDistances) >= 3

\* ---------------------------------------------------------------- C35

EngineOf(w) == engines[worlds[w].engineId]

\* The default world, if there is one, is running exactly when its engine
\* is: the branches of stop and resume that throw "isn't stopped" and
\* "isn't running" are never taken.
StatusMatchesEngine ==
  getDefaultWorld # 0 =>
    (worlds[getDefaultWorld].status = "running"
       <=> EngineOf(getDefaultWorld).state.kind = "running")

\* A step that archived world w.
Archived(w) == worlds[w].isDefault /\ ~worlds'[w].isDefault

\* C35: through init, kick, stop, resume and archive the default world's
\* status is 'running' if and only if its engine is running, and a world is
\* archived only with a stopped engine.
C35_StatusMatchesEngine ==
  [][/\ StatusMatchesEngine'
     /\ \A w \in DOMAIN worlds :
          Archived(w) => EngineOf(w).state.kind = "stopped"]_vars

\* A world was archived with its engine stopped, and the default world made
\* after it was stopped and resumed.
C35_Witness ==
  /\ \E w \in DOMAIN worlds :
       ~worlds[w].isDefault /\ EngineOf(w).state.kind = "stopped"
  /\ getDefaultWorld # 0
  /\ worlds[getDefaultWorld].status = "running"
  /\ EngineOf(getDefaultWorld).generationNumber >= 1

\* ---------------------------------------------------------------- C36

\* The join inputs of one agent description for one world.
JoinsFor(w, name) ==
  {i \in InputsOf(inputs, worlds[w].engineId) :
     inputs[i].name = "join" /\ inputs[i].args = name}

\* C36: however often init runs between the steps of the engine and the
\* agent creation jobs, a world has at most one join input for each agent
\* description.
C36_Original ==
  \A w \in DOMAIN worlds :
    \A d \in DOMAIN Descriptions :
      Cardinality(JoinsFor(w, Descriptions[d])) <= 1

\* ---------------------------------------------------------------- C37

\* The ids an input of the model can have.
InputIds == 1..(MaxInputs + 1)

\* The join input i was processed with an ok result.
OkJoin(i) ==
  /\ i \in DOMAIN inputs
  /\ inputs[i].name = "join"
  /\ inputs[i].returnValue.kind = "ok"

\* The player the ok join i made has an agent.
HasAgent(i) ==
  /\ OkJoin(i)
  /\ \E a \in DOMAIN agents : agents[a].playerId = inputs[i].returnValue.value

\* Every agent belongs to the player of an ok join of its world, and no
\* player has two agents.
AgentsOfOkJoins ==
  /\ \A a \in DOMAIN agents :
       \E i \in InputsOf(inputs, worlds[agents[a].worldId].engineId) :
         OkJoin(i) /\ inputs[i].returnValue.value = agents[a].playerId
  /\ \A a, b \in DOMAIN agents :
       agents[a].playerId = agents[b].playerId => a = b

\* A step keeps the job of every input that is still pending, and a step
\* that makes an agent makes it for a join that was ok before the step.
PendingWaits ==
  /\ \A k \in DOMAIN creations :
       inputs[creations[k].joinInputId].returnValue = NoReturn =>
         \E l \in DOMAIN creations' :
           creations'[l].joinInputId = creations[k].joinInputId
  /\ agents' # agents =>
       \E i \in DOMAIN inputs :
         /\ OkJoin(i)
         /\ \E w \in DOMAIN worlds :
              agents' = Append(agents, [worldId |-> w,
                                        playerId |-> inputs[i].returnValue.value])

\* C37: completeAgentCreation makes an agent only for the player of an ok
\* join and at most one for a player; while the join is pending it makes
\* nothing and keeps its job, and once the join is ok the player's agent is
\* made in the end.
C37_AgentCreated ==
  /\ []AgentsOfOkJoins
  /\ [][PendingWaits]_vars
  /\ \A i \in InputIds : OkJoin(i) ~> HasAgent(i)

\* The first join was processed and its job made the agent of its player;
\* the job of a second join, still pending, ran and scheduled itself again.
C37_Witness ==
  /\ Len(agents) = 1
  /\ HasAgent(1)
  /\ Len(creations) = 1
  /\ inputs[creations[1].joinInputId].returnValue = NoReturn
  /\ creations[1].runAt >= 5000

\* ---------------------------------------------------------------- C38

\* The value of the latest of the samples of hs with time <= t, or the
\* initialValue of the first history of hs when there is none.
ValueAt(hs, t) ==
  LET all == Flatten(hs)
      upTo == {k \in DOMAIN all : all[k].time <= t}
  IN IF upTo = {} THEN hs[1].initialValue
     ELSE all[CHOOSE k \in upTo : \A l \in upTo : l <= k].value

\* C38: query(t) returns the value of the latest sample with time <= t of
\* the retained histories, or the initialValue of the oldest retained
\* history when no sample is that early; a field without a history has no
\* entry in the result.
C38_QueryValue ==
  lastQuery.op = "query" =>
    IF lastQuery.before = << >> THEN lastQuery.result = -1
    ELSE lastQuery.result = ValueAt(lastQuery.before, lastQuery.time)

\* A query at the time of the first sample of the second history, whose
\* value differs from the last value of the first history.
C38_Witness ==
  /\ lastQuery.op = "query"
  /\ Len(lastQuery.before) = 2
  /\ lastQuery.before[1].samples # << >>
  /\ lastQuery.before[2].samples # << >>
  /\ lastQuery.before[2].samples[1].time = lastQuery.time
  /\ lastQuery.result = lastQuery.before[2].samples[1].value
  /\ lastQuery.result #
       lastQuery.before[1].samples[Len(lastQuery.before[1].samples)].value

\* ---------------------------------------------------------------- C39

\* What query would return at time t from every history received, none
\* discarded.
Untrimmed(t) ==
  queryLoop(lastQuery.all, t, 1, 1, lastQuery.all[1].initialValue).currentValue

\* C39: a query at a time not before the earlier queries returns what it
\* would return from all the histories received, the discarded ones
\* included.
C39_Original ==
  (/\ lastQuery.op = "query"
   /\ lastQuery.all # << >>
   /\ lastQuery.time >= lastQuery.since)
    => lastQuery.result = Untrimmed(lastQuery.time)

\* ---------------------------------------------------------------- C40

\* C40: the embeddings fetchEmbeddingBatch returns are in the order of its
\* texts: the i-th is the vector of the i-th text, whatever the order of
\* the entries in the response.
C40_Original ==
  embedded.pc = "returned" =>
    \A i \in DOMAIN embedded.texts :
      embedded.embeddings[i] = embeddingOf(embedded.texts[i])

====
